---- MODULE Spec2Model ----
(***************************************************************************)
(* FindMyScanner: the BLE advertisement classifier of src/src/main.cpp.    *)
(*                                                                         *)
(* The firmware is configured at build time (OUTPUT_FORMAT_FLAG,           *)
(* MIN_RSSI_FLAG, MANUFACTURES_FLAG).  setup() prints the preamble of the  *)
(* output format and starts the scan; from then on the radio calls         *)
(* onResult once per received advertisement.  onResult filters by RSSI,    *)
(* scans the service-data entries, falls back to the manufacturer data and *)
(* prints at most one record on the serial line.                           *)
(*                                                                         *)
(* Bytes are integers 0..255, byte strings are sequences of bytes, text    *)
(* produced by toHex is a sequence of one-character strings, and the       *)
(* fixed labels of the source are TLA+ strings.  What one Serial.print     *)
(* call writes is one element of serial; the text of a buffer filled by    *)
(* snprintf is the sequence of its pieces, the literal parts of the format *)
(* string alternating with the rendered arguments.                         *)
(***************************************************************************)
EXTENDS Integers, Sequences, FiniteSets, TLC

VARIABLES
    OUTPUT_FORMAT,      \* build flag OUTPUT_FORMAT_FLAG, decoded
    MIN_RSSI,           \* build flag MIN_RSSI_FLAG
    MANUFACTURES_FLAG,  \* build flag MANUFACTURES_FLAG
    pc,                 \* how far setup() has got
    clock,              \* milliseconds on the system clock since settimeofday
    air,                \* advertisement reports the radio has yet to deliver
    handled,            \* reports onResult has been called with, in order
    printed,            \* what each of those onResult calls wrote, in order
    call,               \* the locals of the most recent onResult call
    serial,             \* what was written on the serial line, in order
    host                \* the globals of monitor2log.sh on the computer the
                        \* board is plugged into, and how far its main has got

vars == <<OUTPUT_FORMAT, MIN_RSSI, MANUFACTURES_FLAG, pc, clock, air, handled,
          printed, call, serial, host>>

\* monitor2log.sh before it is started: its defaults and global control
\* variables, the locals of main unset, no PlatformIO command run yet
DEFAULT_FORMAT        == "csv"
DEFAULT_MIN_RSSI      == "-70"
DEFAULT_MANUFACTURERS == "all"

HostGlobals ==
    [pc                     |-> "arguments",
     SKIP_UPLOAD            |-> FALSE,
     SELECTED_FORMAT        |-> "",
     SELECTED_MIN_RSSI      |-> "",
     SELECTED_MANUFACTURERS |-> "",
     customize_firmware     |-> "",
     selected_format        |-> "",
     selected_min_rssi      |-> "",
     selected_manufacturers |-> "",
     PLATFORMIO_BUILD_FLAGS |-> <<>>,   \* the values of the three -D flags
     commands               |-> <<>>,   \* the PlatformIO commands run, in order
     log_file               |-> ""]     \* the extension of the log file

-----------------------------------------------------------------------------
(* Bounds of the model.                                                    *)

\* service-data entries one report may carry
MaxServiceData == 2
\* longest manufacturer data the radio delivers
MaxMfdLen == 4

-----------------------------------------------------------------------------
(* Constants of the source.                                                *)

CID_APPLE   == \H004C
CID_GOOGLE  == \H00E0
CID_SAMSUNG == \H0075
CID_XIAOMI  == \H038F
CID_NONE    == \HFFFF

SVC_GOOGLE_FAST_PAIR == \HFEF3
SVC_APPLE_FIND_MY    == \HFD6F
SVC_SAMSUNG_FIND     == \HFD5A

\* a & b for a bit b = 2^k: the value of that bit of a, in place
BitAnd(a, b) == ((a \div b) % 2) * b

FILTER_APPLE == BitAnd(MANUFACTURES_FLAG, 1) # 0
\* FILTER_GOOGLE reading Samsung's bit
FILTER_GOOGLE_bit2 == BitAnd(MANUFACTURES_FLAG, 4) # 0
FILTER_GOOGLE == BitAnd(MANUFACTURES_FLAG, 2) # 0
FILTER_SAMSUNG == BitAnd(MANUFACTURES_FLAG, 4) # 0
FILTER_XIAOMI  == BitAnd(MANUFACTURES_FLAG, 8) # 0

-----------------------------------------------------------------------------
(* Helpers.                                                                *)

\* the hex digits in lower case
hex_lowerCase ==
    <<"0", "1", "2", "3", "4", "5", "6", "7", "8", "9", "a", "b", "c", "d", "e", "f">>

advTypeName(t) ==
    CASE t = 0 -> "ADV_IND"
      [] t = 1 -> "DIR_IND"
      [] t = 2 -> "SCAN_IND"
      [] t = 3 -> "NONCONN"
      [] t = 4 -> "SCAN_RSP"
      [] OTHER -> "UNKNOWN"

hex == <<"0", "1", "2", "3", "4", "5", "6", "7",
         "8", "9", "A", "B", "C", "D", "E", "F">>

RECURSIVE toHexFrom(_, _)
toHexFrom(data, i) ==
    IF i > Len(data) THEN <<>>
    ELSE LET b == data[i]
         IN  <<hex[((b \div 16) % 16) + 1], hex[(b % 16) + 1]>>
             \o (IF i + 1 <= Len(data) THEN <<" ">> ELSE <<>>)
             \o toHexFrom(data, i + 1)

toHex(data) == toHexFrom(data, 1)

\* the company id without its high byte: the shift by 8 forgotten
parseCompanyIdLE_lowByteOnly(mfd) ==
    IF Len(mfd) < 2 THEN CID_NONE ELSE mfd[1]

\* the company id read high byte first
parseCompanyIdLE_bigEndian(mfd) ==
    IF Len(mfd) < 2 THEN CID_NONE ELSE mfd[1] * 256 + mfd[2]

parseCompanyIdLE(mfd) ==
    IF Len(mfd) < 2 THEN CID_NONE
    ELSE (mfd[1] + mfd[2] * 256) % 65536

\* companyName without its Xiaomi case
companyName_noXiaomi(cid) ==
    CASE cid = CID_APPLE   -> "Apple"
      [] cid = CID_GOOGLE  -> "Google"
      [] cid = CID_SAMSUNG -> "Samsung"
      [] OTHER             -> "Other"

companyName(cid) ==
    CASE cid = CID_APPLE   -> "Apple"
      [] cid = CID_GOOGLE  -> "Google"
      [] cid = CID_SAMSUNG -> "Samsung"
      [] cid = CID_XIAOMI  -> "Xiaomi"
      [] OTHER             -> "Other"

serviceToManufacturer(serviceUuid) ==
    CASE serviceUuid = SVC_GOOGLE_FAST_PAIR -> CID_GOOGLE
      [] serviceUuid = SVC_APPLE_FIND_MY    -> CID_APPLE
      [] serviceUuid = SVC_SAMSUNG_FIND     -> CID_SAMSUNG
      [] OTHER                              -> CID_NONE

\* isFindMyServiceData taking a Fast Pair payload of 2 bytes
isFindMyServiceData_fastPairTwoBytes(serviceUuid, serviceData) ==
    CASE serviceUuid = SVC_GOOGLE_FAST_PAIR -> Len(serviceData) >= 2
      [] serviceUuid = SVC_APPLE_FIND_MY    -> Len(serviceData) >= 6
      [] serviceUuid = SVC_SAMSUNG_FIND     -> Len(serviceData) >= 4
      [] OTHER                              -> FALSE

\* isFindMyServiceData with the Apple and Samsung floors exchanged
isFindMyServiceData_floorsExchanged(serviceUuid, serviceData) ==
    CASE serviceUuid = SVC_GOOGLE_FAST_PAIR -> Len(serviceData) >= 3
      [] serviceUuid = SVC_APPLE_FIND_MY    -> Len(serviceData) >= 4
      [] serviceUuid = SVC_SAMSUNG_FIND     -> Len(serviceData) >= 6
      [] OTHER                              -> FALSE

isFindMyServiceData(serviceUuid, serviceData) ==
    CASE serviceUuid = SVC_GOOGLE_FAST_PAIR -> Len(serviceData) >= 3
      [] serviceUuid = SVC_APPLE_FIND_MY    -> Len(serviceData) >= 6
      [] serviceUuid = SVC_SAMSUNG_FIND     -> Len(serviceData) >= 4
      [] OTHER                              -> FALSE

\* getServiceFindMyType with the two Fast Pair type bytes exchanged
getServiceFindMyType_typesExchanged(serviceUuid, serviceData) ==
    CASE serviceUuid = SVC_GOOGLE_FAST_PAIR ->
            IF Len(serviceData) >= 1
            THEN CASE serviceData[1] = \H10 -> "FastPair/FindDevice"
                   [] serviceData[1] = \H11 -> "FastPair/Generic"
                   [] OTHER                 -> "FastPair/Unknown"
            ELSE "FastPair"
      [] serviceUuid = SVC_APPLE_FIND_MY -> "FindMy/Service"
      [] serviceUuid = SVC_SAMSUNG_FIND  -> "SmartTag/Service"
      [] OTHER                           -> "Service/Unknown"

getServiceFindMyType(serviceUuid, serviceData) ==
    CASE serviceUuid = SVC_GOOGLE_FAST_PAIR ->
            IF Len(serviceData) >= 1
            THEN CASE serviceData[1] = \H11 -> "FastPair/FindDevice"
                   [] serviceData[1] = \H10 -> "FastPair/Generic"
                   [] OTHER                 -> "FastPair/Unknown"
            ELSE "FastPair"
      [] serviceUuid = SVC_APPLE_FIND_MY -> "FindMy/Service"
      [] serviceUuid = SVC_SAMSUNG_FIND  -> "SmartTag/Service"
      [] OTHER                           -> "Service/Unknown"

\* isFindMyDevice accepting every subtype byte of a known company
isFindMyDevice_anySubtype(cid, mfd) ==
    IF Len(mfd) < 4 THEN FALSE
    ELSE cid \in {CID_APPLE, CID_GOOGLE, CID_SAMSUNG, CID_XIAOMI}

isFindMyDevice(cid, mfd) ==
    IF Len(mfd) < 4 THEN FALSE
    ELSE CASE cid = CID_APPLE ->
                Len(mfd) >= 3 /\ (mfd[3] = \H12 \/ mfd[3] = \H10)
           [] cid = CID_GOOGLE ->
                Len(mfd) >= 3 /\ mfd[3] = \H06
           [] cid = CID_SAMSUNG ->
                Len(mfd) >= 4 /\ (mfd[3] = \H01 \/ mfd[3] = \H02)
           [] cid = CID_XIAOMI ->
                Len(mfd) >= 3 /\ mfd[3] = \H30
           [] OTHER -> FALSE

\* getFindMyType without its case for Apple's type 0x10
getFindMyType_offlineAsOther(cid, mfd) ==
    IF Len(mfd) < 3 THEN "Unknown"
    ELSE LET type == mfd[3]
         IN  CASE cid = CID_APPLE ->
                    (CASE type = \H12 -> "FindMy/AirTag"
                       [] OTHER       -> "FindMy/Other")
               [] cid = CID_GOOGLE ->
                    (CASE type = \H06 -> "FastPair/FindMy"
                       [] OTHER       -> "FindMy/Other")
               [] cid = CID_SAMSUNG ->
                    (CASE type = \H01 -> "SmartTag"
                       [] type = \H02 -> "SmartTag+"
                       [] OTHER       -> "SmartTag/Other")
               [] cid = CID_XIAOMI ->
                    (CASE type = \H30 -> "Anti-Lost"
                       [] OTHER       -> "FindMy/Other")
               [] OTHER -> "Unknown"

\* getFindMyType with the labels of Samsung's two subtypes exchanged
getFindMyType_swapped(cid, mfd) ==
    IF Len(mfd) < 3 THEN "Unknown"
    ELSE LET type == mfd[3]
         IN  CASE cid = CID_APPLE ->
                    (CASE type = \H12 -> "FindMy/AirTag"
                       [] type = \H10 -> "FindMy/Offline"
                       [] OTHER       -> "FindMy/Other")
               [] cid = CID_GOOGLE ->
                    (CASE type = \H06 -> "FastPair/FindMy"
                       [] OTHER       -> "FindMy/Other")
               [] cid = CID_SAMSUNG ->
                    (CASE type = \H01 -> "SmartTag+"
                       [] type = \H02 -> "SmartTag"
                       [] OTHER       -> "SmartTag/Other")
               [] cid = CID_XIAOMI ->
                    (CASE type = \H30 -> "Anti-Lost"
                       [] OTHER       -> "FindMy/Other")
               [] OTHER -> "Unknown"

getFindMyType(cid, mfd) ==
    IF Len(mfd) < 3 THEN "Unknown"
    ELSE LET type == mfd[3]
         IN  CASE cid = CID_APPLE ->
                    (CASE type = \H12 -> "FindMy/AirTag"
                       [] type = \H10 -> "FindMy/Offline"
                       [] OTHER       -> "FindMy/Other")
               [] cid = CID_GOOGLE ->
                    (CASE type = \H06 -> "FastPair/FindMy"
                       [] OTHER       -> "FindMy/Other")
               [] cid = CID_SAMSUNG ->
                    (CASE type = \H01 -> "SmartTag"
                       [] type = \H02 -> "SmartTag+"
                       [] OTHER       -> "SmartTag/Other")
               [] cid = CID_XIAOMI ->
                    (CASE type = \H30 -> "Anti-Lost"
                       [] OTHER       -> "FindMy/Other")
               [] OTHER -> "Unknown"

isManufacturerEnabled(cid) ==
    CASE cid = CID_APPLE   -> FILTER_APPLE
      [] cid = CID_GOOGLE  -> FILTER_GOOGLE
      [] cid = CID_SAMSUNG -> FILTER_SAMSUNG
      [] cid = CID_XIAOMI  -> FILTER_XIAOMI
      [] OTHER             -> FALSE

-----------------------------------------------------------------------------
(* An advertisement report, as onResult reads it through                   *)
(* NimBLEAdvertisedDevice: rssi, addr, advType, isConnectable, isScannable,*)
(* serviceData (a sequence of [uuid, data], uuid = [bitSize, value]) and   *)
(* manufacturerData (empty when the report has none, else one byte string).*)

getServiceDataCount(d)  == Len(d.serviceData)
haveServiceData(d)      == getServiceDataCount(d) > 0
haveManufacturerData(d) == Len(d.manufacturerData) > 0
getManufacturerData(d)  == d.manufacturerData[1]

\* the RSSI filter rejecting a report whose RSSI equals the threshold
passesRssiFilter_exclusive(d) == ~(d.rssi <= MIN_RSSI)

\* the RSSI filter at the head of onResult: FALSE is the early return
passesRssiFilter(d) == ~(d.rssi < MIN_RSSI)

\* "Converts UUID to uint16_t": 0 unless the UUID is a 16-bit one
uuid16Of(serviceUuid) ==
    IF serviceUuid.bitSize = 16 THEN serviceUuid.value % 65536 ELSE 0

\* the locals of onResult as declared at its head
InitialLocals ==
    [foundFindMyDevice    |-> FALSE,
     detectedManufacturer |-> CID_NONE,
     dataType             |-> "",
     deviceType           |-> "",
     dataHex              |-> <<>>,
     examined             |-> 0,       \* service entries the loop has read
     mfdAttempted         |-> FALSE]   \* the manufacturer-data branch was entered

\* the service-data loop without its break: the last enabled match wins
RECURSIVE serviceDataLoop_noBreak(_, _, _)
serviceDataLoop_noBreak(d, i, st) ==
    IF i > getServiceDataCount(d) THEN st
    ELSE LET serviceData == d.serviceData[i].data
             uuid16      == uuid16Of(d.serviceData[i].uuid)
             seen        == [st EXCEPT !.examined = i]
         IN  IF isFindMyServiceData(uuid16, serviceData)
             THEN LET m      == serviceToManufacturer(uuid16)
                      marked == [seen EXCEPT !.detectedManufacturer = m]
                  IN  IF m # CID_NONE /\ isManufacturerEnabled(m)
                      THEN serviceDataLoop_noBreak(d, i + 1,
                             [marked EXCEPT
                                !.foundFindMyDevice = TRUE,
                                !.dataType   = "Service",
                                !.deviceType = getServiceFindMyType(uuid16, serviceData),
                                !.dataHex    = toHex(serviceData)])
                      ELSE serviceDataLoop_noBreak(d, i + 1, marked)
             ELSE serviceDataLoop_noBreak(d, i + 1, seen)

\* the service-data loop breaking at the first structural match, enabled or not
RECURSIVE serviceDataLoop_breakOnMatch(_, _, _)
serviceDataLoop_breakOnMatch(d, i, st) ==
    IF i > getServiceDataCount(d) THEN st
    ELSE LET serviceData == d.serviceData[i].data
             uuid16      == uuid16Of(d.serviceData[i].uuid)
             seen        == [st EXCEPT !.examined = i]
         IN  IF isFindMyServiceData(uuid16, serviceData)
             THEN LET m      == serviceToManufacturer(uuid16)
                      marked == [seen EXCEPT !.detectedManufacturer = m]
                  IN  IF m # CID_NONE /\ isManufacturerEnabled(m)
                      THEN [marked EXCEPT
                              !.foundFindMyDevice = TRUE,
                              !.dataType   = "Service",
                              !.deviceType = getServiceFindMyType(uuid16, serviceData),
                              !.dataHex    = toHex(serviceData)]
                      ELSE marked
             ELSE serviceDataLoop_breakOnMatch(d, i + 1, seen)

\* the body of the service-data loop from index i (1-based) on
RECURSIVE serviceDataLoop(_, _, _)
serviceDataLoop(d, i, st) ==
    IF i > getServiceDataCount(d) THEN st
    ELSE LET serviceData == d.serviceData[i].data
             uuid16      == uuid16Of(d.serviceData[i].uuid)
             seen        == [st EXCEPT !.examined = i]
         IN  IF isFindMyServiceData(uuid16, serviceData)
             THEN LET m      == serviceToManufacturer(uuid16)
                      marked == [seen EXCEPT !.detectedManufacturer = m]
                  IN  IF m # CID_NONE /\ isManufacturerEnabled(m)
                      THEN [marked EXCEPT
                              !.foundFindMyDevice = TRUE,
                              !.dataType   = "Service",
                              !.deviceType = getServiceFindMyType(uuid16, serviceData),
                              !.dataHex    = toHex(serviceData)]   \* break
                      ELSE serviceDataLoop(d, i + 1, marked)
             ELSE serviceDataLoop(d, i + 1, seen)

\* "First, check service data"
checkServiceData(d, st) ==
    IF haveServiceData(d) THEN serviceDataLoop(d, 1, st) ELSE st

\* the manufacturer-data decoding without its assignment to
\* detectedManufacturer: the value the service loop left is printed
decodeManufacturerData_keepsManufacturer(d, st) ==
    LET mfd == getManufacturerData(d)
        att == [st EXCEPT !.mfdAttempted = TRUE]
    IN  IF Len(mfd) >= 3
        THEN LET cid == parseCompanyIdLE(mfd)
             IN  IF /\ cid \in {CID_APPLE, CID_GOOGLE, CID_SAMSUNG, CID_XIAOMI}
                    /\ isManufacturerEnabled(cid)
                    /\ isFindMyDevice(cid, mfd)
                 THEN [att EXCEPT
                         !.foundFindMyDevice = TRUE,
                         !.dataType   = "Manufacturer",
                         !.deviceType = getFindMyType(cid, mfd),
                         !.dataHex    = toHex(mfd)]
                 ELSE att
        ELSE att

\* the manufacturer-data decoding without the isManufacturerEnabled test
decodeManufacturerData_noEnable(d, st) ==
    LET mfd == getManufacturerData(d)
        att == [st EXCEPT !.mfdAttempted = TRUE]
    IN  IF Len(mfd) >= 3
        THEN LET cid == parseCompanyIdLE(mfd)
             IN  IF /\ cid \in {CID_APPLE, CID_GOOGLE, CID_SAMSUNG, CID_XIAOMI}
                    /\ isFindMyDevice(cid, mfd)
                 THEN [att EXCEPT
                         !.foundFindMyDevice    = TRUE,
                         !.detectedManufacturer = cid,
                         !.dataType   = "Manufacturer",
                         !.deviceType = getFindMyType(cid, mfd),
                         !.dataHex    = toHex(mfd)]
                 ELSE att
        ELSE att

\* the manufacturer-data branch deciding on the company id alone, as soon as
\* its two bytes are there
decodeManufacturerData_companyOnly(d, st) ==
    LET mfd == getManufacturerData(d)
        att == [st EXCEPT !.mfdAttempted = TRUE]
    IN  IF Len(mfd) >= 2
        THEN LET cid == parseCompanyIdLE(mfd)
             IN  IF /\ cid \in {CID_APPLE, CID_GOOGLE, CID_SAMSUNG, CID_XIAOMI}
                    /\ isManufacturerEnabled(cid)
                 THEN [att EXCEPT
                         !.foundFindMyDevice    = TRUE,
                         !.detectedManufacturer = cid,
                         !.dataType   = "Manufacturer",
                         !.deviceType = getFindMyType(cid, mfd),
                         !.dataHex    = toHex(mfd)]
                 ELSE att
        ELSE att

\* the body of the manufacturer-data branch: decode, filter, fill the locals
decodeManufacturerData(d, st) ==
    LET mfd == getManufacturerData(d)
        att == [st EXCEPT !.mfdAttempted = TRUE]
    IN  IF Len(mfd) >= 3
        THEN LET cid == parseCompanyIdLE(mfd)
             IN  IF /\ cid \in {CID_APPLE, CID_GOOGLE, CID_SAMSUNG, CID_XIAOMI}
                    /\ isManufacturerEnabled(cid)
                    /\ isFindMyDevice(cid, mfd)
                 THEN [att EXCEPT
                         !.foundFindMyDevice    = TRUE,
                         !.detectedManufacturer = cid,
                         !.dataType   = "Manufacturer",
                         !.deviceType = getFindMyType(cid, mfd),
                         !.dataHex    = toHex(mfd)]
                 ELSE att
        ELSE att

\* the manufacturer-data branch entered whatever the service loop found
checkManufacturerData_always(d, st) ==
    IF haveManufacturerData(d) THEN decodeManufacturerData(d, st) ELSE st

\* the manufacturer-data branch skipped once the service loop has seen any
\* structural match, enabled or not
checkManufacturerData_blocked(d, st) ==
    IF /\ ~st.foundFindMyDevice
       /\ st.detectedManufacturer = CID_NONE
       /\ haveManufacturerData(d)
    THEN decodeManufacturerData(d, st)
    ELSE st

\* "If not found via Service Data, check Manufacturer Data"
checkManufacturerData(d, st) ==
    IF ~st.foundFindMyDevice /\ haveManufacturerData(d)
    THEN decodeManufacturerData(d, st)
    ELSE st

\* the locals of onResult when it reaches its last statement
classify(d) == checkManufacturerData(d, checkServiceData(d, InitialLocals))

-----------------------------------------------------------------------------
(* Text: what snprintf makes of its arguments.                             *)

OutputFormats == {"LOG", "CSV", "YAML"}

\* the format OUTPUT_FORMAT_FLAG selects; any value but 0, 1, 2 selects LOG
OutputFormatOf(flag) ==
    CASE flag = 0 -> "LOG" [] flag = 1 -> "CSV" [] flag = 2 -> "YAML" [] OTHER -> "LOG"

BUILD_TIME_UNIX == 0

\* the characters of a std::string as one piece of text
RECURSIVE c_str(_)
c_str(chars) ==
    CASE Len(chars) = 0 -> ""
      [] Len(chars) = 1 -> chars[1]
      [] OTHER -> LET half == Len(chars) \div 2
                  IN  c_str(SubSeq(chars, 1, half)) \o c_str(SubSeq(chars, half + 1, Len(chars)))

RECURSIVE repeat(_, _)
repeat(ch, n) == IF n <= 0 THEN "" ELSE ch \o repeat(ch, n - 1)

\* %-Ns: left-justified in a field of at least w characters
padRight(s, w) == s \o repeat(" ", w - Len(s))

\* %0Nd: zero-filled to at least w characters, the sign counted in the width
zeroFilled(n, w) ==
    IF n < 0 THEN "-" \o repeat("0", w - 1 - Len(ToString(-n))) \o ToString(-n)
    ELSE repeat("0", w - Len(ToString(n))) \o ToString(n)

RECURSIVE textLen(_)
textLen(pieces) == IF pieces = <<>> THEN 0 ELSE Len(Head(pieces)) + textLen(Tail(pieces))

Min(a, b) == IF a <= b THEN a ELSE b

\* snprintf(buffer, bufferSize, ...) of a format whose last argument is the
\* hex dump: at most bufferSize - 1 characters are stored, so the cut falls in
\* the hex dump or in the characters after it
snprintf(bufferSize, head, dataHex, tail) ==
    LET room     == bufferSize - 1 - textLen(head)
        hexKept  == SubSeq(dataHex, 1, Min(Len(dataHex), room))
        tailKept == SubSeq(tail, 1, Min(Len(tail), room - Len(hexKept)))
    IN  head \o <<c_str(hexKept)>> \o <<c_str(tailKept)>>

\* the wall-clock text of the system clock, ms milliseconds after setup() set
\* it to BUILD_TIME_UNIX; the date is that of the first day of the epoch
getCurrentTimestamp(ms) ==
    LET sec == BUILD_TIME_UNIX + (ms \div 1000)
    IN  zeroFilled(1970, 4) \o "-" \o zeroFilled(1, 2) \o "-" \o zeroFilled(1, 2) \o " "
        \o zeroFilled((sec \div 3600) % 24, 2) \o ":" \o zeroFilled((sec \div 60) % 60, 2)
        \o ":" \o zeroFilled(sec % 60, 2) \o "." \o zeroFilled(ms % 1000, 3)

\* formatDeviceAsLog with plain %s conversions, nothing padded
formatDeviceAsLog_unpadded(manufacturer, deviceType, addr, rssi, advType, isConnectable, isScannable, dataType, dataHex, timestamp, bufferSize) ==
    snprintf(bufferSize,
             <<timestamp, " | ", companyName(manufacturer), " ", deviceType, " | ", addr,
               " | RSSI ", zeroFilled(rssi, 3), " | PDU ", advTypeName(advType), " | ",
               IF isConnectable THEN "CONN" ELSE "NONCONN",
               IF isScannable THEN "/SCAN" ELSE "", " | ", dataType, " [">>,
             dataHex, <<"]", "\n">>)

formatDeviceAsLog(manufacturer, deviceType, addr, rssi, advType, isConnectable, isScannable, dataType, dataHex, timestamp, bufferSize) ==
    snprintf(bufferSize,
             <<timestamp, " | ", padRight(companyName(manufacturer), 8), " ",
               padRight(deviceType, 18), " | ", addr, " | RSSI ", zeroFilled(rssi, 3),
               " | PDU ", advTypeName(advType), " | ",
               IF isConnectable THEN "CONN" ELSE "NONCONN",
               padRight(IF isScannable THEN "/SCAN" ELSE "", 2), " | ",
               padRight(dataType, 12), " [">>,
             dataHex, <<"]", "\n">>)

\* formatDeviceAsCSV with the device type written before the manufacturer
formatDeviceAsCSV_typeFirst(manufacturer, deviceType, addr, rssi, advType, isConnectable, isScannable, dataType, dataHex, timestamp, bufferSize) ==
    snprintf(bufferSize,
             <<timestamp, ",", deviceType, ",", companyName(manufacturer), ",", addr, ",",
               ToString(rssi), ",", advTypeName(advType), ",",
               IF isConnectable THEN "true" ELSE "false", ",",
               IF isScannable THEN "true" ELSE "false", ",", dataType, ",">>,
             dataHex, <<"\n">>)

formatDeviceAsCSV(manufacturer, deviceType, addr, rssi, advType, isConnectable, isScannable, dataType, dataHex, timestamp, bufferSize) ==
    snprintf(bufferSize,
             <<timestamp, ",", companyName(manufacturer), ",", deviceType, ",", addr, ",",
               ToString(rssi), ",", advTypeName(advType), ",",
               IF isConnectable THEN "true" ELSE "false", ",",
               IF isScannable THEN "true" ELSE "false", ",", dataType, ",">>,
             dataHex, <<"\n">>)

\* formatDeviceAsYaml with the connectable and scannable lines exchanged
formatDeviceAsYaml_keysExchanged(manufacturer, deviceType, addr, rssi, advType, isConnectable, isScannable, dataType, dataHex, timestamp, bufferSize) ==
    snprintf(bufferSize,
             <<"- device:\n",
               "    time: ", timestamp, "\n",
               "    manufacturer: ", companyName(manufacturer), "\n",
               "    type: ", deviceType, "\n",
               "    address: ", addr, "\n",
               "    rssi: ", ToString(rssi), "\n",
               "    adv_type: ", advTypeName(advType), "\n",
               "    scannable: ", IF isConnectable THEN "true" ELSE "false", "\n",
               "    connectable: ", IF isScannable THEN "true" ELSE "false", "\n",
               "    data_type: ", dataType, "\n",
               "    data_hex: ">>,
             dataHex, <<"\n">>)

formatDeviceAsYaml(manufacturer, deviceType, addr, rssi, advType, isConnectable, isScannable, dataType, dataHex, timestamp, bufferSize) ==
    snprintf(bufferSize,
             <<"- device:\n",
               "    time: ", timestamp, "\n",
               "    manufacturer: ", companyName(manufacturer), "\n",
               "    type: ", deviceType, "\n",
               "    address: ", addr, "\n",
               "    rssi: ", ToString(rssi), "\n",
               "    adv_type: ", advTypeName(advType), "\n",
               "    connectable: ", IF isConnectable THEN "true" ELSE "false", "\n",
               "    scannable: ", IF isScannable THEN "true" ELSE "false", "\n",
               "    data_type: ", dataType, "\n",
               "    data_hex: ">>,
             dataHex, <<"\n">>)

\* an output buffer of half the size
OutputBufferSize_half == 2 ^ 8

\* char outputBuffer[512] of printDevice
OutputBufferSize == 512

\* what printDevice writes with its one Serial.print: the buffer the output
\* format filled, kept together with the arguments it was filled from
printDevice(manufacturer, deviceType, addr, rssi, advType, isConnectable, isScannable, dataType, dataHex) ==
    LET timestamp == getCurrentTimestamp(clock)
    IN  [kind          |-> "record",
         time          |-> timestamp,
         manufacturer  |-> companyName(manufacturer),
         deviceType    |-> deviceType,
         addr          |-> addr,
         rssi          |-> rssi,
         advType       |-> advTypeName(advType),
         isConnectable |-> isConnectable,
         isScannable   |-> isScannable,
         dataType      |-> dataType,
         dataHex       |-> dataHex,
         text          |->
             CASE OUTPUT_FORMAT = "LOG" ->
                    formatDeviceAsLog(manufacturer, deviceType, addr, rssi, advType, isConnectable, isScannable, dataType, dataHex, timestamp, OutputBufferSize)
               [] OUTPUT_FORMAT = "CSV" ->
                    formatDeviceAsCSV(manufacturer, deviceType, addr, rssi, advType, isConnectable, isScannable, dataType, dataHex, timestamp, OutputBufferSize)
               [] OUTPUT_FORMAT = "YAML" ->
                    formatDeviceAsYaml(manufacturer, deviceType, addr, rssi, advType, isConnectable, isScannable, dataType, dataHex, timestamp, OutputBufferSize)]

\* onResult dropping a report it has been called with before
onResult_deduplicated(d) ==
    IF ~passesRssiFilter(d) \/ (\E i \in 1 .. Len(handled) : handled[i] = d) THEN <<>>
    ELSE LET st == classify(d)
         IN  IF st.foundFindMyDevice
             THEN <<printDevice(st.detectedManufacturer, st.deviceType, d.addr,
                                d.rssi, d.advType, d.isConnectable,
                                d.isScannable, st.dataType, st.dataHex)>>
             ELSE <<>>

\* onResult printing the record once where it is found and once more at
\* its end
onResult_printedTwice(d) ==
    IF ~passesRssiFilter(d) THEN <<>>
    ELSE LET st  == classify(d)
             rec == printDevice(st.detectedManufacturer, st.deviceType, d.addr,
                                d.rssi, d.advType, d.isConnectable,
                                d.isScannable, st.dataType, st.dataHex)
         IN  IF st.foundFindMyDevice THEN <<rec, rec>> ELSE <<>>

\* the serial output of one onResult call
onResult(d) ==
    IF ~passesRssiFilter(d) THEN <<>>
    ELSE LET st == classify(d)
         IN  IF st.foundFindMyDevice
             THEN <<printDevice(st.detectedManufacturer, st.deviceType, d.addr,
                                d.rssi, d.advType, d.isConnectable,
                                d.isScannable, st.dataType, st.dataHex)>>
             ELSE <<>>

\* the serial output of one onResult call of the simplified scanner, which
\* prints dev->toString() of every report that passes the same RSSI filter
onResultRaw(d) ==
    IF d.rssi < MIN_RSSI THEN <<>> ELSE <<d>>

\* the locals of one onResult call at its return
onResultLocals(d) ==
    IF ~passesRssiFilter(d) THEN InitialLocals ELSE classify(d)

-----------------------------------------------------------------------------
(* The reports the radio delivers.                                         *)

MinRssiValues == {-80, -50}
MaskValues    == 0 .. 15
RssiValues    == {-81, -80, -51, -50}

\* n payload bytes: b0 first, then 01 02 03 ...
Payload(b0, n) == [i \in 1 .. n |-> IF i = 1 THEN b0 ELSE i - 1]

Uuid(bits, v)     == [bitSize |-> bits, value |-> v]
Entry(bits, v, p) == [uuid |-> Uuid(bits, v), data |-> p]

\* service-data entries on both sides of each layout's length floor, the
\* three Fast Pair type bytes, an unknown 16-bit UUID and a 128-bit UUID
ServiceEntries ==
    {Entry(16, SVC_GOOGLE_FAST_PAIR, Payload(\H11, 2))}
    \cup {Entry(16, SVC_GOOGLE_FAST_PAIR, Payload(b, 3)) : b \in {\H11, \H10, \H22}}
    \cup {Entry(16, SVC_APPLE_FIND_MY, Payload(\H22, n)) : n \in {5, 6}}
    \cup {Entry(16, SVC_SAMSUNG_FIND, Payload(\H22, n)) : n \in {3, 4}}
    \cup {Entry(16, \H180F, Payload(\H11, 6)), Entry(128, SVC_GOOGLE_FAST_PAIR, Payload(\H11, 6))}

SeqsUpTo(S, n) == UNION {[1 .. k -> S] : k \in 0 .. n}

ServiceLists == SeqsUpTo(ServiceEntries, MaxServiceData)

FewServiceLists ==
    {<<>>,
     <<Entry(16, SVC_GOOGLE_FAST_PAIR, Payload(\H11, 3))>>,
     <<Entry(16, SVC_APPLE_FIND_MY, Payload(\H22, 6))>>,
     <<Entry(16, SVC_SAMSUNG_FIND, Payload(\H22, 3))>>}

\* the first n bytes of lo hi sub AA AA ...
Mfd(lo, hi, sub, n) ==
    [i \in 1 .. n |-> CASE i = 1 -> lo [] i = 2 -> hi [] i = 3 -> sub [] OTHER -> \HAA]

\* company-id byte pairs as they appear on the air: the four known ids in
\* little endian, and Xiaomi's byte-swapped
CompanyBytes == {<<\H4C, \H00>>, <<\HE0, \H00>>, <<\H75, \H00>>, <<\H8F, \H03>>, <<\H03, \H8F>>}
SubtypeBytes == {\H12, \H10, \H06, \H01, \H02, \H30, \HAA}

MfdValues ==
    {<<>>} \cup
    {<<Mfd(c[1], c[2], s, n)>> : c \in CompanyBytes, s \in SubtypeBytes, n \in 0 .. MaxMfdLen}

FewMfdValues ==
    {<<>>, <<Mfd(\H4C, \H00, \H12, 4)>>, <<Mfd(\H8F, \H03, \H30, 4)>>}

Report(rssi, svc, mfd) ==
    [rssi |-> rssi, addr |-> "aa:bb:cc:dd:ee:ff", advType |-> 3,
     isConnectable |-> FALSE, isScannable |-> FALSE,
     serviceData |-> svc, manufacturerData |-> mfd]

\* every service list with a few manufacturer data, and every manufacturer
\* data with a few service lists
Reports ==
    {Report(r, s, m) : r \in RssiValues, s \in ServiceLists, m \in FewMfdValues}
    \cup {Report(r, s, m) : r \in RssiValues, s \in FewServiceLists, m \in MfdValues}

\* longest service-data payload of a probe
MaxPayloadLen == 7

\* UUIDs a probe entry is tagged with: the three layouts, a foreign 16-bit
\* UUID, Fast Pair's with its bytes swapped, and wider UUIDs of the same value
ProbeUuids ==
    {Uuid(16, SVC_GOOGLE_FAST_PAIR), Uuid(16, SVC_APPLE_FIND_MY), Uuid(16, SVC_SAMSUNG_FIND),
     Uuid(16, \H180F), Uuid(16, \HF3FE), Uuid(32, SVC_APPLE_FIND_MY),
     Uuid(128, SVC_GOOGLE_FAST_PAIR)}

\* every payload length up to the bound, under each first byte
ProbeEntries ==
    {[uuid |-> u, data |-> Payload(b, n)] :
        u \in ProbeUuids, b \in {\H11, \H10, \H22, \H00}, n \in 0 .. MaxPayloadLen}

\* company-id byte pairs of a probe: the known ids, their byte-swapped
\* forms, neighbours of Apple's id and the two extremes
ProbeCompanyBytes ==
    CompanyBytes \cup
    {<<\H00, \H4C>>, <<\H00, \HE0>>, <<\H00, \H75>>, <<\H4D, \H00>>, <<\H4C, \H01>>,
     <<\H00, \H00>>, <<\HFF, \HFF>>}

ProbeMfdValues ==
    {<<>>} \cup
    {<<Mfd(c[1], c[2], s, n)>> : c \in ProbeCompanyBytes, s \in SubtypeBytes, n \in 0 .. MaxMfdLen}

\* a strong and a weak signal under both thresholds
ProbeRssiValues == {-81, -50}

\* one service-data entry with a few manufacturer data, and every
\* manufacturer data with no service data or an Apple entry below its floor
ProbeReports ==
    {Report(r, s, m) : r \in ProbeRssiValues,
                       s \in {<<>>} \cup {<<e>> : e \in ProbeEntries},
                       m \in FewMfdValues}
    \cup {Report(r, s, m) : r \in ProbeRssiValues,
                            s \in {<<>>, <<Entry(16, SVC_APPLE_FIND_MY, Payload(\H22, 5))>>},
                            m \in ProbeMfdValues}

\* reports the radio delivers in one scan
MaxReports == 3
\* the longest manufacturer data of one legacy advertisement
LegacyMfdLen == 29

\* values of OUTPUT_FORMAT_FLAG: the three formats and one out of range
OutputFlagValues == 0 .. 3
\* masks of a scan: nothing, Apple and Google, everything
ScanMaskValues == {0, 3, 15}

\* the reports of a scan: an AirTag, an AirTag filling its advertisement, a
\* Fast Pair finder that also carries Samsung manufacturer data, a Xiaomi tag
\* at the weaker threshold, a report of a foreign service and a foreign
\* company, and an AirTag out of range
ScanReports ==
    {Report(-50, <<>>, <<Mfd(\H4C, \H00, \H12, 4)>>),
     Report(-50, <<>>, <<Mfd(\H4C, \H00, \H12, LegacyMfdLen)>>),
     Report(-50, <<Entry(16, SVC_GOOGLE_FAST_PAIR, Payload(\H11, 3))>>, <<Mfd(\H75, \H00, \H01, 4)>>),
     Report(-80, <<>>, <<Mfd(\H8F, \H03, \H30, 4)>>),
     Report(-50, <<Entry(16, \H180F, Payload(\H11, 6))>>, <<Mfd(\H03, \H8F, \H30, 4)>>),
     Report(-81, <<>>, <<Mfd(\H4C, \H00, \H12, 4)>>)}

\* longest payload handed to the formatter
MaxFormatLen == 90

\* a report with every field of its own
ReportWith(rssi, advType, isConnectable, isScannable, svc, mfd) ==
    [rssi |-> rssi, addr |-> "aa:bb:cc:dd:ee:ff", advType |-> advType,
     isConnectable |-> isConnectable, isScannable |-> isScannable,
     serviceData |-> svc, manufacturerData |-> mfd]

\* the threshold of the builds whose output is examined, and the signal
\* strengths they admit: four, three and two characters in decimal
FormatMinRssi    == -100
FormatRssiValues == {-100, -50, -5}
\* the PDU types advTypeName knows, and one it does not
AdvTypeValues    == 0 .. 5

\* n bytes of an AirTag's and of a Fast Pair finder's manufacturer data, and
\* n bytes of a Fast Pair finder's service data, with bytes of every kind of
\* hex digit after the bytes that are decoded
AirTagData(n)   == [i \in 1 .. n |-> CASE i = 1 -> \H4C [] i = 2 -> \H00 [] i = 3 -> \H12
                                       [] OTHER -> (i * 37) % 256]
FinderData(n)   == [i \in 1 .. n |-> CASE i = 1 -> \HE0 [] i = 2 -> \H00 [] i = 3 -> \H06
                                       [] OTHER -> (i * 37) % 256]
FastPairData(n) == [i \in 1 .. n |-> IF i = 1 THEN \H11 ELSE (i * 41) % 256]

\* short payloads under every combination of the other fields, every
\* payload length under the fields that render longest (the longest names,
\* a four-character RSSI and an eight-character PDU name), and every kind
\* of manufacturer data and of service-data entry
FormatReports ==
    {ReportWith(r, t, c, sc, svc, <<AirTagData(4)>>) :
        r \in FormatRssiValues, t \in AdvTypeValues, c \in BOOLEAN, sc \in BOOLEAN,
        svc \in {<<>>, <<Entry(16, SVC_GOOGLE_FAST_PAIR, FastPairData(3))>>}}
    \cup {ReportWith(-100, 2, FALSE, sc, <<>>, <<m>>) :
             sc \in BOOLEAN,
             m \in {AirTagData(n) : n \in 4 .. MaxFormatLen} \cup {FinderData(n) : n \in 4 .. MaxFormatLen}}
    \cup {ReportWith(-100, 2, FALSE, sc, <<Entry(16, SVC_GOOGLE_FAST_PAIR, FastPairData(n))>>, <<>>) :
             sc \in BOOLEAN, n \in 3 .. MaxFormatLen}
    \cup {Report(-50, <<>>, <<Mfd(c[1], c[2], sub, 4)>>) : c \in CompanyBytes, sub \in SubtypeBytes}
    \cup {Report(-50, <<e>>, <<>>) : e \in ServiceEntries}

-----------------------------------------------------------------------------
(* The state machine.                                                      *)

\* one println or printf of setup(): a line of text
line(text) == [kind |-> "line", text |-> <<text, "\r\n">>]

\* the banner of the LOG format
printFilterStatus ==
    LET status(on) == IF on THEN "ENABLED" ELSE "DISABLED"
    IN  <<line("\n=== Filter by Manufacturer ==="),
          [kind |-> "line", text |-> <<"Apple:   ", status(FILTER_APPLE), "\n">>],
          [kind |-> "line", text |-> <<"Google:  ", status(FILTER_GOOGLE), "\n">>],
          [kind |-> "line", text |-> <<"Samsung: ", status(FILTER_SAMSUNG), "\n">>],
          [kind |-> "line", text |-> <<"Xiaomi:  ", status(FILTER_XIAOMI), "\n">>],
          line("============================\n")>>

CsvHeader == "time,manufacturer,deviceType,addr,rssi,advType,isConnectable,isScannable,dataType,dataHex"
YamlDocumentStart == "---"

\* what setup() prints before it starts the scan
setupPreamble(format) ==
    CASE format = "LOG"  -> printFilterStatus
      [] format = "CSV"  -> <<line(CsvHeader)>>
      [] format = "YAML" -> <<line(YamlDocumentStart)>>

\* delay(5000) of setup() and delay(5) of printDevice, in milliseconds
SetupDelay == 5000
PrintDelay == 5

\* the build flags are fixed, setup() has printed the CSV header of the
\* default build and started the scan, and one report is on the air
Init ==
    /\ OUTPUT_FORMAT = OutputFormatOf(1)
    /\ MIN_RSSI \in MinRssiValues
    /\ MANUFACTURES_FLAG \in MaskValues
    /\ pc = "scanning"
    /\ clock = SetupDelay
    /\ air \in {<<d>> : d \in Reports}
    /\ handled = <<>>
    /\ printed = <<>>
    /\ call = [base |-> Len(setupPreamble(OUTPUT_FORMAT)), admitted |-> FALSE,
               locals |-> InitialLocals]
    /\ serial = setupPreamble(OUTPUT_FORMAT)
    /\ host = HostGlobals

\* setup() up to its delay(5000): the preamble of the output format
SetupPreamble ==
    /\ pc = "setup"
    /\ serial' = serial \o setupPreamble(OUTPUT_FORMAT)
    /\ clock' = clock + SetupDelay
    /\ pc' = "ready"
    /\ UNCHANGED <<OUTPUT_FORMAT, MIN_RSSI, MANUFACTURES_FLAG, air, handled, printed, call, host>>

\* a scan started before the preamble is printed
StartScan_beforePreamble ==
    /\ pc \in {"setup", "ready"}
    /\ \E started \in BOOLEAN : pc' = IF started THEN "scanning" ELSE "error"
    /\ UNCHANGED <<OUTPUT_FORMAT, MIN_RSSI, MANUFACTURES_FLAG, clock, air, handled,
                   printed, call, serial, host>>

\* the end of setup(): scan->start(0, false) succeeds or fails, and a failed
\* start leaves the firmware in signalError() for good
StartScan ==
    /\ pc = "ready"
    /\ \E started \in BOOLEAN : pc' = IF started THEN "scanning" ELSE "error"
    /\ UNCHANGED <<OUTPUT_FORMAT, MIN_RSSI, MANUFACTURES_FLAG, clock, air, handled,
                   printed, call, serial, host>>

\* the running scan delivers the next report:
\* MyAdvertisedDeviceCallbacks::onResult
OnResult ==
    /\ pc = "scanning"
    /\ air # <<>>
    /\ LET d == Head(air)
       IN  /\ air' = Tail(air)
           /\ handled' = Append(handled, d)
           /\ printed' = Append(printed, onResult(d))
           /\ call' = [base |-> Len(serial), admitted |-> passesRssiFilter(d),
                      locals |-> onResultLocals(d)]
           /\ serial' = serial \o onResult(d)
           /\ clock' = clock + PrintDelay * Len(onResult(d))
    /\ UNCHANGED <<OUTPUT_FORMAT, MIN_RSSI, MANUFACTURES_FLAG, pc, host>>

Next == OnResult

Spec == Init /\ [][Next]_vars

\* the same running scan with one probe report on the air
InitProbe ==
    /\ OUTPUT_FORMAT = OutputFormatOf(1)
    /\ MIN_RSSI \in MinRssiValues
    /\ MANUFACTURES_FLAG \in MaskValues
    /\ pc = "scanning"
    /\ clock = SetupDelay
    /\ air \in {<<d>> : d \in ProbeReports}
    /\ handled = <<>>
    /\ printed = <<>>
    /\ call = [base |-> Len(setupPreamble(OUTPUT_FORMAT)), admitted |-> FALSE,
               locals |-> InitialLocals]
    /\ serial = setupPreamble(OUTPUT_FORMAT)
    /\ host = HostGlobals

SpecProbe == InitProbe /\ [][Next]_vars

\* power-on: setup() has yet to run, and the reports of the scan to come
\* are on the air
InitBoot ==
    /\ OUTPUT_FORMAT \in {OutputFormatOf(flag) : flag \in OutputFlagValues}
    /\ MIN_RSSI \in MinRssiValues
    /\ MANUFACTURES_FLAG \in ScanMaskValues
    /\ pc = "setup"
    /\ clock = 0
    /\ air \in SeqsUpTo(ScanReports, MaxReports)
    /\ handled = <<>>
    /\ printed = <<>>
    /\ call = [base |-> 0, admitted |-> FALSE, locals |-> InitialLocals]
    /\ serial = <<>>
    /\ host = HostGlobals

NextScan == SetupPreamble \/ StartScan \/ OnResult

SpecScan == InitBoot /\ [][NextScan]_vars

\* a running scan of a build of each output format, every manufacturer
\* enabled, with one report on the air for the formatter
InitFormat ==
    /\ OUTPUT_FORMAT \in OutputFormats
    /\ MIN_RSSI = FormatMinRssi
    /\ MANUFACTURES_FLAG = 15
    /\ pc = "scanning"
    /\ clock = SetupDelay
    /\ air \in {<<d>> : d \in FormatReports}
    /\ handled = <<>>
    /\ printed = <<>>
    /\ call = [base |-> Len(setupPreamble(OUTPUT_FORMAT)), admitted |-> FALSE,
               locals |-> InitialLocals]
    /\ serial = setupPreamble(OUTPUT_FORMAT)
    /\ host = HostGlobals

SpecFormat == InitFormat /\ [][Next]_vars

\* every pair of company-id bytes, followed by the AirTag or the Xiaomi
\* subtype byte, and manufacturer data too short to hold a company id
ByteValues == 0 .. 255

CompanyData ==
    {<<b0, b1, sub, \HAA>> : b0 \in ByteValues, b1 \in ByteValues, sub \in {\H12, \H30}}
    \cup {<<>>, <<\H4C>>, <<\H8F>>}

\* the scanner with every manufacturer enabled, one report of manufacturer
\* data alone on the air
InitCompany ==
    /\ OUTPUT_FORMAT = OutputFormatOf(1)
    /\ MIN_RSSI = FormatMinRssi
    /\ MANUFACTURES_FLAG = 15
    /\ pc = "scanning"
    /\ clock = SetupDelay
    /\ air \in {<<ReportWith(-50, 0, TRUE, FALSE, <<>>, <<m>>)>> : m \in CompanyData}
    /\ handled = <<>>
    /\ printed = <<>>
    /\ call = [base |-> Len(setupPreamble(OUTPUT_FORMAT)), admitted |-> FALSE,
               locals |-> InitialLocals]
    /\ serial = setupPreamble(OUTPUT_FORMAT)
    /\ host = HostGlobals

SpecCompany == InitCompany /\ [][Next]_vars

-----------------------------------------------------------------------------
(* Vocabulary of the properties.                                           *)

\* onResult has run
Done == handled # <<>>
\* the report of the most recent onResult call
Dev == handled[Len(handled)]
\* the most recent onResult call printed a record, and that record
Emitted == Len(serial) > call.base
Rec == serial[Len(serial)]
\* the records on the serial line, without the preamble of setup()
IsRecord(item) == item.kind = "record"
Records == SelectSeq(serial, IsRecord)

\* bit k of the manufacturer mask
MaskBit(k) == (MANUFACTURES_FLAG \div (2 ^ k)) % 2 = 1
\* the enable flag of a company id: bit0=Apple, bit1=Google, bit2=Samsung, bit3=Xiaomi
EnableFlag(cid) ==
    \/ cid = \H004C /\ MaskBit(0)
    \/ cid = \H00E0 /\ MaskBit(1)
    \/ cid = \H0075 /\ MaskBit(2)
    \/ cid = \H038F /\ MaskBit(3)

\* the service-data decoder matches entry e, and the manufacturer it names
ServiceMatch(e) == isFindMyServiceData(uuid16Of(e.uuid), e.data)
ServiceOwner(e) == serviceToManufacturer(uuid16Of(e.uuid))
\* entry e is a structural match of an enabled / a disabled manufacturer
UsableEntry(e)   == ServiceMatch(e) /\ EnableFlag(ServiceOwner(e))
DisabledEntry(e) == ServiceMatch(e) /\ ~EnableFlag(ServiceOwner(e))
\* the indexes of the usable service entries of report d
UsableIndexes(d) == {i \in 1 .. Len(d.serviceData) : UsableEntry(d.serviceData[i])}
\* the little-endian company id of manufacturer data m
CompanyOf(m) == m[1] + 256 * m[2]
\* the manufacturer-data decoder matches report d
ManufacturerMatch(d) ==
    /\ d.manufacturerData # <<>>
    /\ Len(d.manufacturerData[1]) >= 3
    /\ isFindMyDevice(CompanyOf(d.manufacturerData[1]), d.manufacturerData[1])
UsableManufacturerData(d) ==
    ManufacturerMatch(d) /\ EnableFlag(CompanyOf(d.manufacturerData[1]))

-----------------------------------------------------------------------------
(* C1: onResult emits a record if and only if the report's RSSI passes the *)
(* filter, the service-data or the manufacturer-data decoder matches the   *)
(* report, and the enable flag of the matched manufacturer is set; in      *)
(* every other case nothing is emitted.                                    *)
C1_EmitIffAdmittedMatchedEnabled ==
    Done =>
        (Emitted <=>
            /\ Dev.rssi >= MIN_RSSI
            /\ \/ UsableIndexes(Dev) # {}
               \/ UsableManufacturerData(Dev))

\* a report is emitted through its manufacturer data although a service
\* entry of a disabled manufacturer matched structurally
C1_Witness ==
    /\ Done /\ Emitted
    /\ UsableIndexes(Dev) = {}
    /\ \E i \in 1 .. Len(Dev.serviceData) : DisabledEntry(Dev.serviceData[i])
    /\ UsableManufacturerData(Dev)

(* C2: a report is admitted to classification iff its RSSI is at least     *)
(* MIN_RSSI (RSSI = MIN_RSSI admitted, MIN_RSSI - 1 rejected), and a       *)
(* rejected report reads no payload and produces no output, in the         *)
(* classifier and in the simplified scanner alike.                         *)
C2_RssiAdmission ==
    Done =>
        /\ call.admitted <=> (Dev.rssi >= MIN_RSSI)
        /\ Dev.rssi = MIN_RSSI => call.admitted
        /\ Dev.rssi = MIN_RSSI - 1 => ~call.admitted
        /\ ~call.admitted =>
              /\ ~Emitted
              /\ call.locals.examined = 0
              /\ ~call.locals.mfdAttempted
        /\ (onResultRaw(Dev) # <<>>) <=> (Dev.rssi >= MIN_RSSI)

\* a report one below the threshold is dropped although its payload matches
\* an enabled manufacturer
C2_Witness ==
    /\ Done
    /\ Dev.rssi = MIN_RSSI - 1
    /\ UsableIndexes(Dev) # {} \/ UsableManufacturerData(Dev)
    /\ ~Emitted

\* a report exactly at the threshold is classified
C2_WitnessBoundary == Done /\ Dev.rssi = MIN_RSSI /\ Emitted

(* C3: service data takes precedence: an admitted report with a usable     *)
(* service entry is emitted with source Service, and the manufacturer-data *)
(* branch is never entered, even when the manufacturer data would match.   *)
C3_ServicePrecedence ==
    (Done /\ call.admitted /\ UsableIndexes(Dev) # {}) =>
        /\ Emitted
        /\ Rec.dataType = "Service"
        /\ ~call.locals.mfdAttempted

\* a usable service entry and usable manufacturer data of another
\* manufacturer in one report: the record is the service one
C3_Witness ==
    /\ Done /\ call.admitted /\ Emitted
    /\ UsableIndexes(Dev) # {}
    /\ UsableManufacturerData(Dev)
    /\ Rec.dataType = "Service"
    /\ Rec.manufacturer # companyName(CompanyOf(Dev.manufacturerData[1]))

(* C4 as stated: once any service-data entry matches structurally,         *)
(* enabled or not, the classifier does not fall through to the             *)
(* manufacturer data: a report with a structurally valid service entry of  *)
(* a disabled manufacturer and matching manufacturer data of an enabled    *)
(* manufacturer never yields a record with source Manufacturer.            *)
C4_NoFallThroughAfterStructuralMatch ==
    (/\ Done
     /\ \E i \in 1 .. Len(Dev.serviceData) : DisabledEntry(Dev.serviceData[i])
     /\ UsableManufacturerData(Dev)) =>
        ~(Emitted /\ Rec.dataType = "Manufacturer")

(* C4 amended: only a usable service entry (structural match of an enabled *)
(* manufacturer) keeps the classifier from the manufacturer data.  An      *)
(* admitted report enters the manufacturer-data branch iff it carries      *)
(* manufacturer data and no usable service entry; one whose only           *)
(* structural service matches are of disabled manufacturers and whose      *)
(* manufacturer data matches an enabled manufacturer yields a record with  *)
(* source Manufacturer.                                                    *)
C4_FallThroughUnlessUsableService ==
    (Done /\ call.admitted) =>
        /\ call.locals.mfdAttempted <=>
              (Dev.manufacturerData # <<>> /\ UsableIndexes(Dev) = {})
        /\ (/\ UsableIndexes(Dev) = {}
            /\ \E i \in 1 .. Len(Dev.serviceData) : DisabledEntry(Dev.serviceData[i])
            /\ UsableManufacturerData(Dev)) =>
               /\ Emitted
               /\ Rec.dataType = "Manufacturer"
               /\ Rec.manufacturer = companyName(CompanyOf(Dev.manufacturerData[1]))

\* a valid service entry of a disabled manufacturer, then a Manufacturer record
C4_Witness ==
    /\ Done /\ call.admitted /\ Emitted
    /\ \E i \in 1 .. Len(Dev.serviceData) : DisabledEntry(Dev.serviceData[i])
    /\ call.locals.mfdAttempted
    /\ Rec.dataType = "Manufacturer"

\* the smallest element of a non-empty set of numbers
Least(S) == CHOOSE k \in S : \A j \in S : k <= j

(* C5: the service entries are examined in received order, and the record  *)
(* is built from the first entry that decodes structurally and whose       *)
(* manufacturer is enabled; the entries after it are not examined and have *)
(* no influence on the record's manufacturer, device type or hex bytes.    *)
C5_FirstUsableEntryWins ==
    (Done /\ call.admitted /\ UsableIndexes(Dev) # {}) =>
        LET k == Least(UsableIndexes(Dev))
            e == Dev.serviceData[k]
        IN  /\ Emitted
            /\ call.locals.examined = k
            /\ Rec.dataType = "Service"
            /\ Rec.manufacturer = companyName(ServiceOwner(e))
            /\ Rec.deviceType = getServiceFindMyType(uuid16Of(e.uuid), e.data)
            /\ Rec.dataHex = toHex(e.data)

\* two usable entries of different manufacturers: the record is the first's,
\* and the loop stopped there
C5_Witness ==
    /\ Done /\ call.admitted /\ Emitted
    /\ Len(Dev.serviceData) >= 2
    /\ UsableEntry(Dev.serviceData[1])
    /\ UsableEntry(Dev.serviceData[2])
    /\ ServiceOwner(Dev.serviceData[1]) # ServiceOwner(Dev.serviceData[2])
    /\ Rec.manufacturer = companyName(ServiceOwner(Dev.serviceData[1]))
    /\ call.locals.examined = 1

(* C6 as stated: an enabled structural match is never reached when an      *)
(* earlier entry structurally matches a disabled manufacturer: a report    *)
(* whose entries are [valid entry of a disabled manufacturer, valid entry  *)
(* of an enabled manufacturer] yields no Service record from the second.   *)
C6_EnabledMatchAfterDisabledNeverReached ==
    (/\ Done
     /\ Len(Dev.serviceData) >= 2
     /\ DisabledEntry(Dev.serviceData[1])
     /\ UsableEntry(Dev.serviceData[2])) =>
        ~(/\ Emitted
          /\ Rec.dataType = "Service"
          /\ Rec.dataHex = toHex(Dev.serviceData[2].data))

(* C6 amended: a structural match of a disabled manufacturer does not end  *)
(* the service-data loop: an admitted report whose entries begin [valid    *)
(* entry of a disabled manufacturer, valid entry of an enabled             *)
(* manufacturer] yields the Service record of the second entry.            *)
C6_EnabledMatchAfterDisabledIsReached ==
    (/\ Done /\ call.admitted
     /\ Len(Dev.serviceData) >= 2
     /\ DisabledEntry(Dev.serviceData[1])
     /\ UsableEntry(Dev.serviceData[2])) =>
        /\ Emitted
        /\ call.locals.examined = 2
        /\ Rec.dataType = "Service"
        /\ Rec.manufacturer = companyName(ServiceOwner(Dev.serviceData[2]))
        /\ Rec.dataHex = toHex(Dev.serviceData[2].data)

\* [valid disabled entry, valid enabled entry] and the record of the second
C6_Witness ==
    /\ Done /\ call.admitted /\ Emitted
    /\ Len(Dev.serviceData) = 2
    /\ DisabledEntry(Dev.serviceData[1])
    /\ UsableEntry(Dev.serviceData[2])
    /\ Rec.dataType = "Service"
    /\ Rec.dataHex = toHex(Dev.serviceData[2].data)

\* company ids the mask is probed with: the four known ids, their
\* byte-swapped forms, the service UUIDs, neighbours and the sentinel
ProbedCompanyIds ==
    {\H004C, \H00E0, \H0075, \H038F, \H4C00, \HE000, \H7500, \H8F03,
     \HFEF3, \HFD6F, \HFD5A, 0, 1, \H004B, \H004D, \H0390, \HFFFF}

(* C7: for each of the 16 masks, isManufacturerEnabled of Apple, Google,   *)
(* Samsung and Xiaomi is bit 0, 1, 2 and 3 of the mask, and it is false    *)
(* for every other company id; with mask 0 no report produces a record.    *)
C7_MaskBitDecomposition ==
    /\ \E a, g, s, x \in {0, 1} :
          /\ MANUFACTURES_FLAG = a + 2 * g + 4 * s + 8 * x
          /\ \A cid \in ProbedCompanyIds :
                isManufacturerEnabled(cid) <=>
                   \/ cid = \H004C /\ a = 1
                   \/ cid = \H00E0 /\ g = 1
                   \/ cid = \H0075 /\ s = 1
                   \/ cid = \H038F /\ x = 1
    /\ MANUFACTURES_FLAG = 0 => Records = <<>>

\* mask 0: an admitted report whose service data and manufacturer data both
\* match structurally puts no record on the serial line
C7_Witness ==
    /\ Done /\ call.admitted
    /\ MANUFACTURES_FLAG = 0
    /\ \E i \in 1 .. Len(Dev.serviceData) : ServiceMatch(Dev.serviceData[i])
    /\ ManufacturerMatch(Dev)
    /\ Records = <<>>

\* the subtype table of the manufacturer data: company id, subtype byte,
\* manufacturer name, device type
SubtypeTable ==
    {<<\H004C, \H12, "Apple",   "FindMy/AirTag">>,
     <<\H004C, \H10, "Apple",   "FindMy/Offline">>,
     <<\H00E0, \H06, "Google",  "FastPair/FindMy">>,
     <<\H0075, \H01, "Samsung", "SmartTag">>,
     <<\H0075, \H02, "Samsung", "SmartTag+">>,
     <<\H038F, \H30, "Xiaomi",  "Anti-Lost">>}

\* the report carries manufacturer data of at least n bytes / exactly bytes b
MfdAtLeast(d, n) == d.manufacturerData # <<>> /\ Len(d.manufacturerData[1]) >= n
MfdIs(d, b)      == d.manufacturerData = <<b>>

(* C8: for an admitted report with no usable service entry and             *)
(* manufacturer data of at least 4 bytes whose company id and subtype      *)
(* byte (byte 2) are a row of the table, the record carries that row's     *)
(* manufacturer and device type with source Manufacturer when the          *)
(* manufacturer is enabled, and there is no record when it is disabled.    *)
C8_ManufacturerSubtypeTable ==
    (Done /\ call.admitted /\ UsableIndexes(Dev) = {} /\ MfdAtLeast(Dev, 4)) =>
        LET m == Dev.manufacturerData[1]
        IN  \A row \in SubtypeTable :
                (CompanyOf(m) = row[1] /\ m[3] = row[2]) =>
                    IF EnableFlag(row[1])
                    THEN /\ Emitted
                         /\ Rec.manufacturer = row[3]
                         /\ Rec.deviceType = row[4]
                         /\ Rec.dataType = "Manufacturer"
                    ELSE ~Emitted

\* 4C 00 12 AA with Apple enabled: Apple FindMy/AirTag, source Manufacturer
C8_Witness ==
    /\ Done /\ call.admitted /\ Emitted
    /\ MfdIs(Dev, <<\H4C, \H00, \H12, \HAA>>)
    /\ Rec.manufacturer = "Apple"
    /\ Rec.deviceType = "FindMy/AirTag"
    /\ Rec.dataType = "Manufacturer"

(* C9: the manufacturer-data length floor is 3 bytes for Google and Xiaomi *)
(* and 4 bytes for Apple and Samsung: with no usable service entry, the    *)
(* 3 bytes E0 00 06 (Google enabled) are classified Google                 *)
(* FastPair/FindMy and the 3 bytes 8F 03 30 (Xiaomi enabled) Xiaomi        *)
(* Anti-Lost, while 3-byte Apple or Samsung data is not classified.        *)
C9_LengthFloors ==
    (Done /\ call.admitted /\ UsableIndexes(Dev) = {}) =>
        /\ (MfdIs(Dev, <<\HE0, \H00, \H06>>) /\ MaskBit(1)) =>
              /\ Emitted
              /\ Rec.manufacturer = "Google"
              /\ Rec.deviceType = "FastPair/FindMy"
              /\ Rec.dataType = "Manufacturer"
        /\ (MfdIs(Dev, <<\H8F, \H03, \H30>>) /\ MaskBit(3)) =>
              /\ Emitted
              /\ Rec.manufacturer = "Xiaomi"
              /\ Rec.deviceType = "Anti-Lost"
              /\ Rec.dataType = "Manufacturer"
        /\ (/\ Dev.manufacturerData # <<>>
            /\ Len(Dev.manufacturerData[1]) = 3
            /\ CompanyOf(Dev.manufacturerData[1]) \in {\H004C, \H0075}) => ~Emitted

\* the subtype bytes the table lists for a company id
ListedSubtypes(cid) == {row[2] : row \in {r \in SubtypeTable : r[1] = cid}}
\* the label the source keeps for an unlisted subtype byte
FallbackLabel(cid) == IF cid = \H0075 THEN "SmartTag/Other" ELSE "FindMy/Other"
\* manufacturer data of a known, enabled company, at least n bytes, whose
\* subtype byte the table does not list
UnlistedSubtype(d, n) ==
    /\ MfdAtLeast(d, n)
    /\ CompanyOf(d.manufacturerData[1]) \in {\H004C, \H00E0, \H0075, \H038F}
    /\ EnableFlag(CompanyOf(d.manufacturerData[1]))
    /\ d.manufacturerData[1][3] \notin ListedSubtypes(CompanyOf(d.manufacturerData[1]))

(* C10 as stated: manufacturer data of a known, enabled company that meets *)
(* its length floor (4 bytes meet every floor) but carries a subtype byte  *)
(* the table does not list is still classified, with the company's         *)
(* fallback label and source Manufacturer.                                 *)
C10_UnlistedSubtypeGetsFallbackLabel ==
    (Done /\ call.admitted /\ UsableIndexes(Dev) = {} /\ UnlistedSubtype(Dev, 4)) =>
        /\ Emitted
        /\ Rec.manufacturer = companyName(CompanyOf(Dev.manufacturerData[1]))
        /\ Rec.deviceType = FallbackLabel(CompanyOf(Dev.manufacturerData[1]))
        /\ Rec.dataType = "Manufacturer"

(* C10 amended: manufacturer data of a known, enabled company that carries *)
(* a subtype byte the table does not list is not classified, whatever its  *)
(* length: with no usable service entry the report yields no record, and   *)
(* the fallback labels FindMy/Other and SmartTag/Other never appear in a   *)
(* record.                                                                 *)
C10_UnlistedSubtypeNotClassified ==
    Done =>
        /\ (UsableIndexes(Dev) = {} /\ UnlistedSubtype(Dev, 3)) => ~Emitted
        /\ UnlistedSubtype(Dev, 3) => ~(Emitted /\ Rec.dataType = "Manufacturer")
        /\ Emitted => Rec.deviceType \notin {"FindMy/Other", "SmartTag/Other"}

\* 75 00 AA AA with Samsung enabled and no service data: the manufacturer
\* data was decoded and nothing was printed
C10_Witness ==
    /\ Done /\ call.admitted
    /\ MaskBit(2)
    /\ Dev.serviceData = <<>>
    /\ MfdIs(Dev, <<\H75, \H00, \HAA, \HAA>>)
    /\ call.locals.mfdAttempted
    /\ ~Emitted

-----------------------------------------------------------------------------
(* Service-data labels and floors, probed one entry at a time.             *)

\* the first service-data entry of the report, tagged with 16-bit UUID v
FirstEntryIs(v) ==
    /\ Len(Dev.serviceData) >= 1
    /\ Dev.serviceData[1].uuid = [bitSize |-> 16, value |-> v]
FirstPayload == Dev.serviceData[1].data

\* the most recent call printed a Service record of this manufacturer and type
ServiceRecord(name, type) ==
    /\ Emitted
    /\ Rec.dataType = "Service"
    /\ Rec.manufacturer = name
    /\ Rec.deviceType = type

(* C11: a service-data entry FEF3 of at least 3 bytes, Google enabled,     *)
(* gives a Google Service record typed by byte 0 alone: 0x11               *)
(* FastPair/FindDevice, 0x10 FastPair/Generic, anything else               *)
(* FastPair/Unknown; FD6F of at least 6 bytes, Apple enabled, always gives *)
(* Apple FindMy/Service, and FD5A of at least 4 bytes, Samsung enabled,    *)
(* always gives Samsung SmartTag/Service, whatever the payload holds.      *)
C11_ServiceLabels ==
    (Done /\ call.admitted) =>
        /\ (FirstEntryIs(\HFEF3) /\ Len(FirstPayload) >= 3 /\ MaskBit(1)) =>
              ServiceRecord("Google",
                            CASE FirstPayload[1] = \H11 -> "FastPair/FindDevice"
                              [] FirstPayload[1] = \H10 -> "FastPair/Generic"
                              [] OTHER -> "FastPair/Unknown")
        /\ (FirstEntryIs(\HFD6F) /\ Len(FirstPayload) >= 6 /\ MaskBit(0)) =>
              ServiceRecord("Apple", "FindMy/Service")
        /\ (FirstEntryIs(\HFD5A) /\ Len(FirstPayload) >= 4 /\ MaskBit(2)) =>
              ServiceRecord("Samsung", "SmartTag/Service")

\* an Apple entry whose payload starts with the Fast Pair type byte 0x11 is
\* still FindMy/Service
C11_Witness ==
    /\ Done /\ call.admitted
    /\ FirstEntryIs(\HFD6F) /\ Len(FirstPayload) >= 6 /\ FirstPayload[1] = \H11
    /\ ServiceRecord("Apple", "FindMy/Service")

\* a Fast Pair entry with type byte 0x10 is FastPair/Generic
C11_WitnessGeneric ==
    /\ Done /\ call.admitted
    /\ FirstEntryIs(\HFEF3) /\ Len(FirstPayload) = 3 /\ FirstPayload[1] = \H10
    /\ ServiceRecord("Google", "FastPair/Generic")

\* the report carries exactly one service-data entry, FEF3 with this payload
OnlyFastPairEntry(payload) ==
    /\ Len(Dev.serviceData) = 1
    /\ FirstEntryIs(\HFEF3)
    /\ FirstPayload = payload

(* C12 as stated: an admitted report carrying service data FEF3 with the   *)
(* 2-byte payload 11 01, Google enabled, is classified Google              *)
(* FastPair/FindDevice with source Service, and its manufacturer data is   *)
(* never consulted.                                                        *)
C12_TwoByteFastPairClassified ==
    (Done /\ call.admitted /\ MaskBit(1) /\ OnlyFastPairEntry(<<\H11, \H01>>)) =>
        /\ ServiceRecord("Google", "FastPair/FindDevice")
        /\ ~call.locals.mfdAttempted

(* C12, amended: with Google enabled, the 3-byte payload 11 01 02 under    *)
(* FEF3 is classified Google FastPair/FindDevice with source Service and   *)
(* the manufacturer data is never consulted; the 2-byte payload 11 01 is   *)
(* below the Fast Pair floor, gives no Service record, and the             *)
(* manufacturer data, when present, is consulted instead.                  *)
C12_FastPairNeedsThreeBytes ==
    (Done /\ call.admitted /\ MaskBit(1)) =>
        /\ OnlyFastPairEntry(<<\H11, \H01, \H02>>) =>
              /\ ServiceRecord("Google", "FastPair/FindDevice")
              /\ ~call.locals.mfdAttempted
        /\ OnlyFastPairEntry(<<\H11, \H01>>) =>
              /\ ~(Emitted /\ Rec.dataType = "Service")
              /\ call.locals.mfdAttempted <=> Len(Dev.manufacturerData) > 0

\* the 2-byte payload with an AirTag's manufacturer data, Google and Apple
\* enabled: the record is the AirTag's, from the manufacturer data
C12_Witness ==
    /\ Done /\ call.admitted /\ MaskBit(1) /\ MaskBit(0)
    /\ OnlyFastPairEntry(<<\H11, \H01>>)
    /\ MfdIs(Dev, <<\H4C, \H00, \H12, \HAA>>)
    /\ call.locals.mfdAttempted
    /\ Emitted
    /\ Rec.dataType = "Manufacturer"
    /\ Rec.manufacturer = "Apple"

\* the floors of the three service-data layouts
AtOrAboveFloor(e) ==
    /\ e.uuid.bitSize = 16
    /\ \/ e.uuid.value = \HFEF3 /\ Len(e.data) >= 3
       \/ e.uuid.value = \HFD6F /\ Len(e.data) >= 6
       \/ e.uuid.value = \HFD5A /\ Len(e.data) >= 4

\* what the most recent onResult call wrote on the serial line
Written == SubSeq(serial, call.base + 1, Len(serial))

(* C13: a service-data entry is a structural match iff its 16-bit UUID is  *)
(* FEF3 with at least 3 payload bytes, FD6F with at least 6 or FD5A with   *)
(* at least 4; an entry below its floor or of any other UUID never         *)
(* produces a Service record, and skipping it writes nothing: the call     *)
(* writes at most one item, and that item is a record.                     *)
C13_StructuralMatchFloors ==
    Done =>
        /\ \A i \in 1 .. Len(Dev.serviceData) :
              LET e == Dev.serviceData[i]
              IN  isFindMyServiceData(uuid16Of(e.uuid), e.data) <=> AtOrAboveFloor(e)
        /\ (Emitted /\ Rec.dataType = "Service") =>
              \E i \in 1 .. Len(Dev.serviceData) :
                  /\ AtOrAboveFloor(Dev.serviceData[i])
                  /\ call.locals.examined = i
                  /\ Rec.dataHex = toHex(Dev.serviceData[i].data)
        /\ Len(Written) <= 1
        /\ \A k \in 1 .. Len(Written) : Written[k].kind = "record"
        /\ (\A i \in 1 .. Len(Dev.serviceData) : ~AtOrAboveFloor(Dev.serviceData[i])) =>
              \A k \in 1 .. Len(Written) : Written[k].dataType = "Manufacturer"

\* an admitted Apple entry one byte below its floor, Apple enabled and no
\* manufacturer data: the entry was examined and nothing was written
C13_Witness ==
    /\ Done /\ call.admitted /\ MaskBit(0)
    /\ Len(Dev.serviceData) = 1
    /\ FirstEntryIs(\HFD6F) /\ Len(FirstPayload) = 5
    /\ Dev.manufacturerData = <<>>
    /\ call.locals.examined = 1
    /\ Written = <<>>

-----------------------------------------------------------------------------
(* Manufacturer data that cannot match.                                    *)

(* C14: manufacturer data shorter than 3 bytes never yields a record with  *)
(* source Manufacturer, under every mask and every RSSI threshold; with no *)
(* usable service entry the call writes nothing.                           *)
C14_ShortManufacturerDataNeverMatches ==
    (Done /\ Len(Dev.manufacturerData) > 0 /\ Len(Dev.manufacturerData[1]) < 3) =>
        /\ ~(Emitted /\ Rec.dataType = "Manufacturer")
        /\ (\A i \in 1 .. Len(Dev.serviceData) : ~AtOrAboveFloor(Dev.serviceData[i])) =>
              Written = <<>>

\* the 2-byte manufacturer data 4C 00, every manufacturer enabled, admitted,
\* no service data: the branch was entered and nothing was written
C14_Witness ==
    /\ Done /\ call.admitted
    /\ MANUFACTURES_FLAG = 15
    /\ Dev.serviceData = <<>>
    /\ MfdIs(Dev, <<\H4C, \H00>>)
    /\ call.locals.mfdAttempted
    /\ Written = <<>>

\* the company id the first two bytes spell, low byte first
LittleEndianId(m) == m[1] + 256 * m[2]

(* C15: manufacturer data whose little-endian company id is not 0x004C,    *)
(* 0x00E0, 0x0075 or 0x038F never matches, whatever its length and subtype *)
(* byte and whatever the mask: no record with source Manufacturer, and     *)
(* with no usable service entry the call writes nothing.                   *)
C15_UnknownCompanyNeverMatches ==
    (/\ Done
     /\ Len(Dev.manufacturerData) > 0
     /\ Len(Dev.manufacturerData[1]) >= 2
     /\ LittleEndianId(Dev.manufacturerData[1]) \notin {\H004C, \H00E0, \H0075, \H038F}) =>
        /\ ~(Emitted /\ Rec.dataType = "Manufacturer")
        /\ (\A i \in 1 .. Len(Dev.serviceData) : ~AtOrAboveFloor(Dev.serviceData[i])) =>
              Written = <<>>

\* Xiaomi's id with its bytes swapped, followed by Xiaomi's subtype, every
\* manufacturer enabled: the branch was entered and nothing was written
C15_Witness ==
    /\ Done /\ call.admitted
    /\ MANUFACTURES_FLAG = 15
    /\ Dev.serviceData = <<>>
    /\ MfdIs(Dev, <<\H03, \H8F, \H30, \HAA>>)
    /\ call.locals.mfdAttempted
    /\ Written = <<>>

\* Apple's low byte under a foreign high byte, with the AirTag subtype
C15_WitnessNeighbour ==
    /\ Done /\ call.admitted
    /\ MANUFACTURES_FLAG = 15
    /\ Dev.serviceData = <<>>
    /\ MfdIs(Dev, <<\H4C, \H01, \H12, \HAA>>)
    /\ Written = <<>>

-----------------------------------------------------------------------------
(* The serial line over a whole scan.                                      *)

\* the pieces of text of a serial item
Pieces(item) == {item.text[k] : k \in 1 .. Len(item.text)}

WithoutTime(rec) ==
    [rec EXCEPT !.time = "",
                !.text = [k \in DOMAIN rec.text |->
                             IF rec.text[k] = rec.time THEN "" ELSE rec.text[k]]]

\* what a call wrote, timestamps blanked
OutputWithoutTime(out) == [k \in DOMAIN out |-> WithoutTime(out[k])]

Classified(d) ==
    /\ d.rssi >= MIN_RSSI
    /\ UsableIndexes(d) # {} \/ UsableManufacturerData(d)

ClassifiedReports == SelectSeq(handled, Classified)

\* the hex dumps a record of this report can carry
HexDumps(d) ==
    {toHex(d.serviceData[i].data) : i \in 1 .. Len(d.serviceData)}
    \cup {toHex(d.manufacturerData[i]) : i \in 1 .. Len(d.manufacturerData)}

\* a record whose text was stored whole: it ends with the last characters
\* of its format, newline included, and is shorter than the output buffer
Complete(item) ==
    /\ item.kind = "record"
    /\ item.text[Len(item.text)] = (IF OUTPUT_FORMAT = "LOG" THEN "]\n" ELSE "\n")
    /\ textLen(item.text) < 512
    /\ \A k \in 1 .. Len(item.text) - 1 : item.text[k] # ""

\* the records are those of the classified reports, one each, in the order
\* of delivery
OneRecordPerClassifiedReport ==
    /\ Len(Records) = Len(ClassifiedReports)
    /\ \A k \in 1 .. Len(Records) :
          /\ Records[k].rssi = ClassifiedReports[k].rssi
          /\ Records[k].dataHex \in HexDumps(ClassifiedReports[k])
          /\ Complete(Records[k])

\* a step leaves what is on the serial line in place, and an onResult call
\* adds nothing or one complete record
AppendsAtMostOneRecord ==
    /\ Len(serial') >= Len(serial)
    /\ SubSeq(serial', 1, Len(serial)) = serial
    /\ handled' # handled =>
          \/ serial' = serial
          \/ /\ Len(serial') = Len(serial) + 1
             /\ Complete(serial'[Len(serial')])

-----------------------------------------------------------------------------
(* The preamble of setup() and the shape of a YAML record.                 *)

\* the serial items whose first piece of text is this
ItemsStarting(text) == {k \in 1 .. Len(serial) : serial[k].text[1] = text}

(* C19: in CSV format the header line                                      *)
(* time,manufacturer,deviceType,addr,rssi,advType,isConnectable,           *)
(* isScannable,dataType,dataHex is written exactly once and strictly       *)
(* before the first record: the serial line is empty until setup() prints  *)
(* the header first, everything after it is a record, and no report is     *)
(* handled before the scan is started, which is after the header.          *)
C19_CsvHeaderOnceBeforeRecords ==
    OUTPUT_FORMAT = "CSV" =>
        /\ pc = "setup" => serial = <<>>
        /\ pc # "setup" =>
              /\ ItemsStarting("time,manufacturer,deviceType,addr,rssi,advType,isConnectable,isScannable,dataType,dataHex") = {1}
              /\ serial[1].kind = "line"
              /\ \A k \in 2 .. Len(serial) : serial[k].kind = "record"
        /\ pc # "scanning" => handled = <<>> /\ Records = <<>>

\* a CSV scan that has printed two records after its header
C19_Witness ==
    /\ OUTPUT_FORMAT = "CSV"
    /\ pc = "scanning"
    /\ Len(serial) = 3
    /\ serial[1].kind = "line"
    /\ serial[1].text[1] = "time,manufacturer,deviceType,addr,rssi,advType,isConnectable,isScannable,dataType,dataHex"
    /\ serial[2].kind = "record" /\ serial[3].kind = "record"

\* a scan that failed to start: the header is printed and no record follows
C19_WitnessFailedStart ==
    /\ OUTPUT_FORMAT = "CSV"
    /\ pc = "error"
    /\ air # <<>>
    /\ Len(serial) = 1

\* the keys of a YAML record, in the order of the format
YamlKeys ==
    <<"time", "manufacturer", "type", "address", "rssi", "adv_type", "connectable",
      "scannable", "data_type", "data_hex">>

\* the spellings of a YAML key at the start of a line, under the usual
\* indentations and as the first key of a list item
KeySpellings(key) == {indent \o key \o ": " : indent \in {"", "  ", "    ", "- ", "  - "}}

\* the document marker was written once, as the first thing setup() printed,
\* and everything after it is a record
YamlMarkerOnceFirst ==
    /\ pc = "setup" => serial = <<>>
    /\ pc # "setup" =>
          /\ ItemsStarting("---") = {1}
          /\ serial[1].kind = "line"
          /\ \A k \in 2 .. Len(serial) : serial[k].kind = "record"
    /\ pc # "scanning" => Records = <<>>

(* C20 as stated: in YAML format the marker --- is written exactly once    *)
(* before any record, and each record is a mapping whose keys are exactly  *)
(* time, manufacturer, type, address, rssi, adv_type, connectable,         *)
(* scannable, data_type, data_hex in that order, with no other keys or     *)
(* wrapper lines: its text is ten lines, each a key, a value and a newline.*)
C20_YamlRecordIsBareMapping ==
    OUTPUT_FORMAT = "YAML" =>
        /\ YamlMarkerOnceFirst
        /\ \A r \in 1 .. Len(Records) :
              /\ Len(Records[r].text) = 3 * Len(YamlKeys)
              /\ \A k \in 1 .. Len(YamlKeys) :
                    /\ Records[r].text[3 * k - 2] \in KeySpellings(YamlKeys[k])
                    /\ Records[r].text[3 * k] = "\n"

(* C20, amended: in YAML format the marker --- is written exactly once     *)
(* before any record, and each record is a list item that opens with the   *)
(* wrapper line "- device:", under which a mapping indented by four spaces *)
(* has exactly the keys time, manufacturer, type, address, rssi, adv_type, *)
(* connectable, scannable, data_type, data_hex, in that order.             *)
C20_YamlRecordIsWrappedMapping ==
    OUTPUT_FORMAT = "YAML" =>
        /\ YamlMarkerOnceFirst
        /\ \A r \in 1 .. Len(Records) :
              /\ Len(Records[r].text) = 1 + 3 * Len(YamlKeys)
              /\ Records[r].text[1] = "- device:\n"
              /\ \A k \in 1 .. Len(YamlKeys) :
                    /\ Records[r].text[3 * k - 1] = "    " \o YamlKeys[k] \o ": "
                    /\ Records[r].text[3 * k + 1] = "\n"
              /\ Records[r].text[3] = Records[r].time
              /\ Records[r].text[6] = Records[r].manufacturer
              /\ Records[r].text[9] = Records[r].deviceType

\* a YAML scan that has printed two records after its marker
C20_Witness ==
    /\ OUTPUT_FORMAT = "YAML"
    /\ pc = "scanning"
    /\ Len(serial) = 3
    /\ serial[1].text[1] = "---"
    /\ Len(Records) = 2
    /\ Records[2].text[1] = "- device:\n"
    /\ Records[2].text[2] = "    time: "

-----------------------------------------------------------------------------
(* The text of a record, character by character.                           *)

\* the characters a Serial.print of these pieces puts on the line
RECURSIVE Flat(_)
Flat(pieces) ==
    CASE Len(pieces) = 0 -> ""
      [] Len(pieces) = 1 -> pieces[1]
      [] OTHER -> LET half == Len(pieces) \div 2
                  IN  Flat(SubSeq(pieces, 1, half)) \o Flat(SubSeq(pieces, half + 1, Len(pieces)))

\* the text of the record the most recent call printed
Line == Flat(Rec.text)

\* the name of a PDU type
PduName(t) ==
    CASE t = 0 -> "ADV_IND" [] t = 1 -> "DIR_IND" [] t = 2 -> "SCAN_IND"
      [] t = 3 -> "NONCONN" [] t = 4 -> "SCAN_RSP" [] OTHER -> "UNKNOWN"

\* a signal strength in at least three characters, sign included, filled
\* with zeros after the sign
RssiWidth3(r) ==
    CASE r <= -10 -> ToString(r)
      [] r < 0    -> "-0" \o ToString(-r)
      [] r < 10   -> "00" \o ToString(r)
      [] r < 100  -> "0" \o ToString(r)
      [] OTHER    -> ToString(r)

\* text followed by the spaces that fill it to w characters
FilledTo(text, w) ==
    IF Len(text) >= w THEN text ELSE text \o SubSeq("                    ", 1, w - Len(text))

(* C21 as stated: in Log format each record is exactly time, ' | ',        *)
(* manufacturer name, one space, device type, ' | ', address, ' | RSSI ',  *)
(* the RSSI zero-padded to width 3, ' | PDU ', the PDU name, ' | ', CONN   *)
(* or NONCONN followed by /SCAN when scannable and by nothing otherwise,   *)
(* ' | ', Service or Manufacturer, ' [', the hex bytes, ']' and a newline, *)
(* with no padding characters beyond those shown.                          *)
C21_LogLineUnpadded ==
    (Done /\ Emitted /\ OUTPUT_FORMAT = "LOG") =>
        Line = Rec.time \o " | " \o Rec.manufacturer \o " " \o Rec.deviceType \o " | "
               \o Dev.addr \o " | RSSI " \o RssiWidth3(Dev.rssi) \o " | PDU "
               \o PduName(Dev.advType) \o " | "
               \o (IF Dev.isConnectable THEN "CONN" ELSE "NONCONN")
               \o (IF Dev.isScannable THEN "/SCAN" ELSE "") \o " | "
               \o Rec.dataType \o " [" \o Flat(Rec.dataHex) \o "]\n"

(* C21, amended: in Log format each record is that layout with its columns *)
(* aligned: the manufacturer name is filled with spaces to 8 characters,   *)
(* the device type to 18, CONN or NONCONN is followed by /SCAN when        *)
(* scannable and by two spaces otherwise, and Service or Manufacturer is   *)
(* filled to 12 characters; a value longer than its column is written      *)
(* whole.                                                                  *)
C21_LogLinePadded ==
    (Done /\ Emitted /\ OUTPUT_FORMAT = "LOG") =>
        Line = Rec.time \o " | " \o FilledTo(Rec.manufacturer, 8) \o " "
               \o FilledTo(Rec.deviceType, 18) \o " | "
               \o Dev.addr \o " | RSSI " \o RssiWidth3(Dev.rssi) \o " | PDU "
               \o PduName(Dev.advType) \o " | "
               \o (IF Dev.isConnectable THEN "CONN" ELSE "NONCONN")
               \o (IF Dev.isScannable THEN "/SCAN" ELSE "  ") \o " | "
               \o FilledTo(Rec.dataType, 12) \o " [" \o Flat(Rec.dataHex) \o "]\n"

\* the line of a connectable, scannable AirTag at -5 dBm
C21_Witness ==
    /\ Done /\ Emitted /\ OUTPUT_FORMAT = "LOG"
    /\ Line = "1970-01-01 00:00:05.000 | Apple    FindMy/AirTag      | aa:bb:cc:dd:ee:ff | RSSI -05 | PDU ADV_IND | CONN/SCAN | Manufacturer [4C 00 12 94]\n"

\* the line of a Fast Pair finder that is neither, at -100 dBm: a device
\* type longer than its column, and two spaces for /SCAN
C21_WitnessService ==
    /\ Done /\ Emitted /\ OUTPUT_FORMAT = "LOG"
    /\ Line = "1970-01-01 00:00:05.000 | Google   FastPair/FindDevice | aa:bb:cc:dd:ee:ff | RSSI -100 | PDU UNKNOWN | NONCONN   | Service      [11 52 7B]\n"

\* the positions of a character in a text
PositionsOf(ch, text) == {i \in 1 .. Len(text) : SubSeq(text, i, i) = ch}

\* the k-th of the positions P, counted from 1; 0 for k = 0 and one past
\* the end of the text for k past the last
NthPosition(P, k, text) ==
    IF k = 0 THEN 0
    ELSE IF k > Cardinality(P) THEN Len(text) + 1
    ELSE CHOOSE p \in P : Cardinality({q \in P : q < p}) = k - 1

\* a text split on a separator character
Split(text, ch) ==
    LET P == PositionsOf(ch, text)
    IN  [k \in 1 .. Cardinality(P) + 1 |->
            SubSeq(text, NthPosition(P, k - 1, text) + 1, NthPosition(P, k, text) - 1)]

\* the integer a decimal numeral spells
DigitValue(ch) ==
    CASE ch = "0" -> 0 [] ch = "1" -> 1 [] ch = "2" -> 2 [] ch = "3" -> 3 [] ch = "4" -> 4
      [] ch = "5" -> 5 [] ch = "6" -> 6 [] ch = "7" -> 7 [] ch = "8" -> 8 [] ch = "9" -> 9
RECURSIVE NaturalOf(_)
NaturalOf(digits) ==
    IF Len(digits) = 0 THEN 0
    ELSE 10 * NaturalOf(SubSeq(digits, 1, Len(digits) - 1))
         + DigitValue(SubSeq(digits, Len(digits), Len(digits)))
IntegerOf(numeral) ==
    IF Head(numeral) = "-" THEN 0 - NaturalOf(Tail(numeral)) ELSE NaturalOf(numeral)

\* the CSV row of the most recent record: its line without the newline
Row == SubSeq(Line, 1, Len(Line) - 1)

(* C22: for every classified report, the CSV line is a row followed by one *)
(* newline; splitting the row on commas gives exactly 10 fields, and       *)
(* fields 2, 3, 4, 5 and 10 are the manufacturer name, the device type,    *)
(* the address, the RSSI in decimal and the hex bytes of the               *)
(* classification.                                                         *)
C22_CsvRoundTrip ==
    (Done /\ Emitted /\ OUTPUT_FORMAT = "CSV") =>
        /\ PositionsOf("\n", Line) = {Len(Line)}
        /\ LET field == Split(Row, ",")
           IN  /\ Len(field) = 10
               /\ field[1] = Rec.time
               /\ field[2] = Rec.manufacturer
               /\ field[2] \in {"Apple", "Google", "Samsung", "Xiaomi"}
               /\ field[3] = call.locals.deviceType
               /\ field[4] = Dev.addr
               /\ IntegerOf(field[5]) = Dev.rssi
               /\ field[6] = PduName(Dev.advType)
               /\ field[7] = (IF Dev.isConnectable THEN "true" ELSE "false")
               /\ field[8] = (IF Dev.isScannable THEN "true" ELSE "false")
               /\ field[9] = call.locals.dataType
               /\ field[10] = Flat(call.locals.dataHex)

\* the row of a connectable AirTag at -5 dBm
C22_Witness ==
    /\ Done /\ Emitted /\ OUTPUT_FORMAT = "CSV"
    /\ Line = "1970-01-01 00:00:05.000,Apple,FindMy/AirTag,aa:bb:cc:dd:ee:ff,-5,ADV_IND,true,false,Manufacturer,4C 00 12 94\n"
    /\ Split(Row, ",")[5] = "-5"
    /\ Split(Row, ",")[10] = "4C 00 12 94"

\* the payload the most recent record was built from
MatchedPayload ==
    IF call.locals.dataType = "Service"
    THEN Dev.serviceData[call.locals.examined].data
    ELSE Dev.manufacturerData[1]

\* the text of the most recent record holds its whole hex dump, 3n-1
\* characters for n bytes, and ends with its newline
Untruncated ==
    /\ SubSeq(Line, Len(Line), Len(Line)) = "\n"
    /\ LET hexLen == 3 * Len(MatchedPayload) - 1
           closing == IF OUTPUT_FORMAT = "LOG" THEN 2 ELSE 1
       IN  /\ Len(Line) > hexLen + closing
           /\ SubSeq(Line, Len(Line) - closing - hexLen + 1, Len(Line) - closing)
                 = Flat(call.locals.dataHex)
           /\ Len(Flat(call.locals.dataHex)) = hexLen

(* C23 as stated: in every output format the record of a classified report *)
(* is never cut by the 512-byte output buffer: for every matched payload   *)
(* length the whole text, with its 3n-1 hex characters, is at most 511     *)
(* characters and ends with its newline.                                   *)
C23_NeverTruncated ==
    (Done /\ Emitted) => (Len(Line) <= 511 /\ Untruncated)

(* C23, amended: the text of a record is never longer than 511 characters, *)
(* and for every matched payload of at most 87 bytes, which covers every   *)
(* legacy advertisement, it is whole in every output format, with its 3n-1 *)
(* hex characters and its newline; a longer payload can be cut, as the     *)
(* YAML record of an 88-byte payload is.                                   *)
C23_WholeUpTo87Bytes ==
    (Done /\ Emitted) =>
        /\ Len(Line) <= 511
        /\ Len(MatchedPayload) <= 87 => Untruncated

\* the YAML record of 87 bytes of Fast Pair manufacturer data at -100 dBm
\* fills the buffer to its last character and is whole
C23_Witness ==
    /\ Done /\ Emitted /\ OUTPUT_FORMAT = "YAML"
    /\ Len(MatchedPayload) = 87
    /\ Len(Line) = 511
    /\ Untruncated

\* one byte more and the record is cut: 511 characters without the newline
C23_WitnessCut ==
    /\ Done /\ Emitted /\ OUTPUT_FORMAT = "YAML"
    /\ Len(MatchedPayload) = 88
    /\ Len(Line) = 511
    /\ ~Untruncated

\* the value of an upper-case hex digit, and -1 for any other character
HexDigitValue(ch) ==
    CASE ch \in {"0", "1", "2", "3", "4", "5", "6", "7", "8", "9"} -> DigitValue(ch)
      [] ch = "A" -> 10 [] ch = "B" -> 11 [] ch = "C" -> 12
      [] ch = "D" -> 13 [] ch = "E" -> 14 [] ch = "F" -> 15
      [] OTHER -> -1

\* a hex dump of n bytes read back: the bytes its pairs spell
BytesOf(dump, n) ==
    [k \in 1 .. n |-> 16 * HexDigitValue(dump[3 * k - 2]) + HexDigitValue(dump[3 * k - 1])]

(* C24: the hex field of a record renders the whole matched payload, for   *)
(* manufacturer data the two company-id bytes included, as upper-case      *)
(* two-digit pairs separated by single spaces: 3n-1 characters for n       *)
(* bytes, no space first or last, the empty text for no bytes, and the     *)
(* pairs read back give the bytes of the payload in order.                 *)
C24_HexDumpRoundTrip ==
    /\ toHex(<<>>) = <<>>
    /\ (Done /\ Emitted) =>
          LET dump == Rec.dataHex
              n    == Len(MatchedPayload)
          IN  /\ Len(dump) = 3 * n - 1
              /\ \A k \in 1 .. n :
                    /\ HexDigitValue(dump[3 * k - 2]) >= 0
                    /\ HexDigitValue(dump[3 * k - 1]) >= 0
              /\ \A k \in 1 .. n - 1 : dump[3 * k] = " "
              /\ BytesOf(dump, n) = MatchedPayload
              /\ Rec.dataType = "Manufacturer" =>
                    /\ MatchedPayload = Dev.manufacturerData[1]
                    /\ BytesOf(dump, n)[1] + 256 * BytesOf(dump, n)[2]
                          \in {\H004C, \H00E0, \H0075, \H038F}

\* 29 bytes of an AirTag's manufacturer data, with digits A to F among
\* them, read back from the 86 characters of the record's hex field
C24_Witness ==
    /\ Done /\ Emitted
    /\ Rec.dataType = "Manufacturer"
    /\ Len(MatchedPayload) = 29
    /\ Len(Rec.dataHex) = 86
    /\ SubSeq(Rec.dataHex, 1, 14) = <<"4", "C", " ", "0", "0", " ", "1", "2", " ", "9", "4", " ", "B", "9">>
    /\ BytesOf(Rec.dataHex, 29) = MatchedPayload

-----------------------------------------------------------------------------
(* The company id.                                                         *)

\* the manufacturer data of the report just handled
Data == Dev.manufacturerData[1]

(* C25: the company id is read little-endian: for all bytes b0, b1 it is   *)
(* b0 + 256 * b1, a value of 0 .. 65535; 8F 03 is Xiaomi and 03 8F is no   *)
(* known company; data shorter than two bytes gives the sentinel 0xFFFF,   *)
(* which is no known id, so such data never matches.                       *)
C25_CompanyIdLittleEndian ==
    Done =>
       /\ Len(Data) >= 2 =>
             /\ parseCompanyIdLE(Data) = Data[1] + 256 * Data[2]
             /\ parseCompanyIdLE(Data) \in 0 .. 65535
             /\ Emitted <=>
                   \/ Data[1] = \H4C /\ Data[2] = \H00 /\ Data[3] = \H12
                   \/ Data[1] = \H8F /\ Data[2] = \H03 /\ Data[3] = \H30
             /\ Emitted => Rec.manufacturer = companyName(Data[1] + 256 * Data[2])
       /\ (Len(Data) >= 2 /\ Data[1] = \H8F /\ Data[2] = \H03 /\ Data[3] = \H30) =>
             /\ Emitted
             /\ Rec.manufacturer = "Xiaomi"
             /\ Rec.dataType = "Manufacturer"
       /\ (Len(Data) >= 2 /\ Data[1] = \H03 /\ Data[2] = \H8F) =>
             /\ parseCompanyIdLE(Data) \notin {CID_APPLE, CID_GOOGLE, CID_SAMSUNG, CID_XIAOMI}
             /\ ~Emitted
       /\ Len(Data) < 2 =>
             /\ parseCompanyIdLE(Data) = \HFFFF
             /\ parseCompanyIdLE(Data) \notin {CID_APPLE, CID_GOOGLE, CID_SAMSUNG, CID_XIAOMI}
             /\ ~Emitted

\* 8F 03 30 AA was handled and came out as a Xiaomi record
C25_Witness ==
    /\ Done /\ Emitted
    /\ Data = <<\H8F, \H03, \H30, \HAA>>
    /\ Rec.manufacturer = "Xiaomi"
    /\ Rec.deviceType = "Anti-Lost"

\* 03 8F 30 AA was handled and nothing was written
C25_WitnessSwapped ==
    /\ Done /\ ~Emitted
    /\ Data = <<\H03, \H8F, \H30, \HAA>>

\* one byte of manufacturer data was handled and nothing was written
C25_WitnessShort ==
    /\ Done /\ ~Emitted
    /\ Data = <<\H8F>>

-----------------------------------------------------------------------------
(* The classifications a record can carry.                                 *)

\* manufacturer, device type and source of the record just written
Triple == <<Rec.manufacturer, Rec.deviceType, Rec.dataType>>

Wrote(manufacturer, deviceType, dataType) ==
    Done /\ Emitted /\ Triple = <<manufacturer, deviceType, dataType>>

(* C26: whatever the report and the mask, the manufacturer, device type    *)
(* and source of an emitted record are one of: Google with                 *)
(* FastPair/FindDevice, FastPair/Generic or FastPair/Unknown, Apple with   *)
(* FindMy/Service, Samsung with SmartTag/Service, all from Service; Apple  *)
(* with FindMy/AirTag or FindMy/Offline, Google with FastPair/FindMy,      *)
(* Samsung with SmartTag or SmartTag+, Xiaomi with Anti-Lost, all from     *)
(* Manufacturer. FindMy/Other, SmartTag/Other, Unknown, FastPair and       *)
(* Service/Unknown are never written, nor Xiaomi from Service.             *)
C26_EmittedTriples ==
    (Done /\ Emitted) =>
       /\ Triple \in
             {<<"Google",  "FastPair/FindDevice", "Service">>,
              <<"Google",  "FastPair/Generic",    "Service">>,
              <<"Google",  "FastPair/Unknown",    "Service">>,
              <<"Apple",   "FindMy/Service",      "Service">>,
              <<"Samsung", "SmartTag/Service",    "Service">>,
              <<"Apple",   "FindMy/AirTag",       "Manufacturer">>,
              <<"Apple",   "FindMy/Offline",      "Manufacturer">>,
              <<"Google",  "FastPair/FindMy",     "Manufacturer">>,
              <<"Samsung", "SmartTag",            "Manufacturer">>,
              <<"Samsung", "SmartTag+",           "Manufacturer">>,
              <<"Xiaomi",  "Anti-Lost",           "Manufacturer">>}
       /\ Rec.deviceType \notin
             {"FindMy/Other", "SmartTag/Other", "Unknown", "FastPair", "Service/Unknown"}
       /\ ~(Rec.manufacturer = "Xiaomi" /\ Rec.dataType = "Service")

\* each of the eleven classifications is written by some report; the
\* first is the default branch of the Fast Pair type switch
C26_Witness             == Wrote("Google", "FastPair/Unknown", "Service")
C26_WitnessFindDevice   == Wrote("Google", "FastPair/FindDevice", "Service")
C26_WitnessGeneric      == Wrote("Google", "FastPair/Generic", "Service")
C26_WitnessAppleService == Wrote("Apple", "FindMy/Service", "Service")
C26_WitnessSamsungService == Wrote("Samsung", "SmartTag/Service", "Service")
C26_WitnessAirTag       == Wrote("Apple", "FindMy/AirTag", "Manufacturer")
C26_WitnessOffline      == Wrote("Apple", "FindMy/Offline", "Manufacturer")
C26_WitnessFastPair     == Wrote("Google", "FastPair/FindMy", "Manufacturer")
C26_WitnessSmartTag     == Wrote("Samsung", "SmartTag", "Manufacturer")
C26_WitnessSmartTagPlus == Wrote("Samsung", "SmartTag+", "Manufacturer")
C26_WitnessAntiLost     == Wrote("Xiaomi", "Anti-Lost", "Manufacturer")

-----------------------------------------------------------------------------
(* The manufacturer of a record and the block it is built from.            *)

\* the service entry a Service record is built from: the first usable one
SourceEntry == Dev.serviceData[Least(UsableIndexes(Dev))]

\* the service loop passed a structural match of a disabled manufacturer,
\* which left that manufacturer in detectedManufacturer
StaleManufacturers ==
    {ServiceOwner(Dev.serviceData[i]) :
        i \in {k \in 1 .. call.locals.examined : DisabledEntry(Dev.serviceData[k])}}

(* C27: the manufacturer printed in a record belongs to the block the      *)
(* record is built from: for source Service the manufacturer of the        *)
(* service entry whose bytes are printed, for source Manufacturer the      *)
(* company id parsed from the manufacturer data printed. A manufacturer    *)
(* the service loop assigned for a structural match of a disabled          *)
(* manufacturer is never printed.                                          *)
C27_ManufacturerOfTheBlock ==
    (Done /\ Emitted) =>
       /\ Rec.dataType = "Service" =>
             /\ UsableIndexes(Dev) # {}
             /\ Rec.dataHex = toHex(SourceEntry.data)
             /\ Rec.manufacturer = companyName(ServiceOwner(SourceEntry))
       /\ Rec.dataType = "Manufacturer" =>
             /\ Rec.dataHex = toHex(Data)
             /\ Rec.manufacturer = companyName(CompanyOf(Data))
       /\ \A m \in StaleManufacturers : Rec.manufacturer # companyName(m)
       /\ call.locals.detectedManufacturer \notin StaleManufacturers

\* a service entry of a disabled manufacturer was passed, and the record
\* was then built from the manufacturer data of an enabled one
C27_Witness ==
    /\ Done /\ Emitted
    /\ StaleManufacturers # {}
    /\ Rec.dataType = "Manufacturer"
    /\ Rec.manufacturer = companyName(CompanyOf(Data))

\* a service entry of a disabled manufacturer was passed, and the record
\* was then built from the next entry, of an enabled one
C27_WitnessService ==
    /\ Done /\ Emitted
    /\ StaleManufacturers # {}
    /\ Rec.dataType = "Service"
    /\ call.locals.examined = 2
    /\ Rec.manufacturer = companyName(ServiceOwner(Dev.serviceData[2]))

-----------------------------------------------------------------------------
(* monitor2log.sh: the script that builds the firmware with the settings   *)
(* the user chose, uploads it and records the serial output in a log file. *)

MaxNames == 2

\* word splitting of a list under IFS=','
fields(text) == IF text = "" THEN <<>> ELSE Split(text, ",")

validate_format(format) == format \in {"log", "csv", "yaml"}

validate_manufacturers(manufacturers) ==
    \A i \in 1 .. Len(fields(manufacturers)) :
        fields(manufacturers)[i] \in {"Apple", "Google", "Samsung", "Xiaomi", "all"}

\* format_to_flag without its yaml case
format_to_flag_noYaml(format) ==
    CASE format = "log"  -> "0"
      [] format = "csv"  -> "1"
      [] OTHER           -> "1"

format_to_flag(format) ==
    CASE format = "log"  -> "0"
      [] format = "csv"  -> "1"
      [] format = "yaml" -> "2"
      [] OTHER           -> "1"

\* flag | b for a bit b = 2^k
BitOr(flag, b) == flag + b - BitAnd(flag, b)

\* the for loop of manufacturers_to_flag from the i-th name on
RECURSIVE manufacturersLoop(_, _, _)
manufacturersLoop(names, i, flag) ==
    IF i > Len(names) THEN flag
    ELSE manufacturersLoop(names, i + 1,
            CASE names[i] = "Apple"   -> BitOr(flag, 1)
              [] names[i] = "Google"  -> BitOr(flag, 2)
              [] names[i] = "Samsung" -> BitOr(flag, 4)
              [] names[i] = "Xiaomi"  -> BitOr(flag, 8)
              [] OTHER                -> flag)

\* printf "0x%X" of a value below 16
manufacturers_to_flag(manufacturers) ==
    IF manufacturers = "all" THEN "0xF"
    ELSE "0x" \o hex[manufacturersLoop(fields(manufacturers), 1, 0) + 1]

select_format(choice) ==
    CASE choice = 1 -> "log" [] choice = 2 -> "csv" [] choice = 3 -> "yaml"

select_min_rssi(rssi_choice) ==
    CASE rssi_choice = 0 -> "-200" [] rssi_choice = 1 -> "-10" [] rssi_choice = 2 -> "-20"
      [] rssi_choice = 3 -> "-30"  [] rssi_choice = 4 -> "-40" [] rssi_choice = 5 -> "-50"
      [] rssi_choice = 6 -> "-60"  [] rssi_choice = 7 -> "-70" [] rssi_choice = 8 -> "-80"
      [] rssi_choice = 9 -> "-100"

\* the for loop of select_manufacturers over the numbers typed, 5 ending it
RECURSIVE selectLoop(_, _, _)
selectLoop(choices, i, selected) ==
    IF i > Len(choices) THEN selected
    ELSE LET sep == IF selected = "" THEN "" ELSE ","
         IN  CASE choices[i] = "1" -> selectLoop(choices, i + 1, selected \o sep \o "Apple")
               [] choices[i] = "2" -> selectLoop(choices, i + 1, selected \o sep \o "Google")
               [] choices[i] = "3" -> selectLoop(choices, i + 1, selected \o sep \o "Samsung")
               [] choices[i] = "4" -> selectLoop(choices, i + 1, selected \o sep \o "Xiaomi")
               [] choices[i] = "5" -> "all"

select_manufacturers(manufacturers_input) == selectLoop(fields(manufacturers_input), 1, "")

\* the value the compiler reads from the text of a -D flag: 0x and hex
\* digits, or a decimal numeral with or without a sign
RECURSIVE HexNaturalOf(_)
HexNaturalOf(digits) ==
    IF Len(digits) = 0 THEN 0
    ELSE 16 * HexNaturalOf(SubSeq(digits, 1, Len(digits) - 1))
         + HexDigitValue(SubSeq(digits, Len(digits), Len(digits)))

FlagValue(text) ==
    IF Len(text) > 2 /\ SubSeq(text, 1, 2) = "0x"
    THEN HexNaturalOf(SubSeq(text, 3, Len(text)))
    ELSE IntegerOf(text)

\* perform_upload: the build flags it exports, the PlatformIO commands it
\* runs and how it ends, given whether the build and the upload succeed
perform_upload(format, min_rssi, manufacturers, compiles, uploads) ==
    [flags    |-> <<format_to_flag(format), min_rssi, manufacturers_to_flag(manufacturers)>>,
     commands |-> IF compiles THEN <<"run", "run -t upload">> ELSE <<"run">>,
     status   |-> IF ~compiles THEN "exit" ELSE IF uploads THEN "0" ELSE "1"]

\* handle_upload going on to monitoring after a failed build or upload
handle_upload_failureIgnored(choice, change_choice, status) ==
    IF host.SKIP_UPLOAD THEN "1"
    ELSE IF choice = "y" THEN (IF status = "0" THEN "0" ELSE "1")
    ELSE IF change_choice = "y" THEN "2"
    ELSE "1"

\* the return code of handle_upload, or exit where it ends the script
handle_upload(choice, change_choice, status) ==
    IF host.SKIP_UPLOAD THEN "1"
    ELSE IF choice = "y" THEN (IF status = "0" THEN "0" ELSE "exit")
    ELSE IF change_choice = "y" THEN "2"
    ELSE "1"

\* what the user passes on the command line; "" for an option left out
FormatArguments == {"", "log", "csv", "yaml", "json"}
RssiArguments   == {"", "-80"}
Names           == {"Apple", "Google", "Samsung", "Xiaomi", "all"}

RECURSIVE Joined(_)
Joined(names) ==
    IF Len(names) = 1 THEN names[1]
    ELSE Joined(SubSeq(names, 1, Len(names) - 1)) \o "," \o names[Len(names)]

ManufacturerArguments ==
    {"", "Sony"} \cup {Joined(names) : names \in SeqsUpTo(Names, MaxNames) \ {<<>>}}

\* what the user types at the menus
FormatChoices      == 1 .. 3
RssiChoices        == {0, 7}
ManufacturerInputs == {"5", "1", "2,4", "3,5"}
Answers            == {"y", "n"}

\* the board powered with a firmware built without any flag, and the
\* script about to be started
InitHost ==
    /\ OUTPUT_FORMAT = OutputFormatOf(1)
    /\ MIN_RSSI = -50
    /\ MANUFACTURES_FLAG = 15
    /\ pc = "setup"
    /\ clock = 0
    /\ air = <<>>
    /\ handled = <<>>
    /\ printed = <<>>
    /\ call = [base |-> 0, admitted |-> FALSE, locals |-> InitialLocals]
    /\ serial = <<>>
    /\ host = HostGlobals

Firmware == <<OUTPUT_FORMAT, MIN_RSSI, MANUFACTURES_FLAG, pc, clock, air, handled, printed, call, serial>>

\* process_arguments: an invalid value ends the script
ProcessArguments ==
    /\ host.pc = "arguments"
    /\ \E noUpload \in BOOLEAN, format \in FormatArguments, rssi \in RssiArguments, manufacturers \in ManufacturerArguments :
          IF \/ format # "" /\ ~validate_format(format)
             \/ manufacturers # "" /\ ~validate_manufacturers(manufacturers)
          THEN host' = [host EXCEPT !.pc = "exit"]
          ELSE host' = [host EXCEPT !.pc = "ask",
                                    !.SKIP_UPLOAD = noUpload,
                                    !.SELECTED_FORMAT = format,
                                    !.SELECTED_MIN_RSSI = rssi,
                                    !.SELECTED_MANUFACTURERS = manufacturers]
    /\ UNCHANGED Firmware

\* step 2 of main's loop: ask_firmware_customization
AskFirmwareCustomization ==
    /\ host.pc = "ask"
    /\ \E choice \in Answers :
          host' = [host EXCEPT
                     !.pc = "collect",
                     !.customize_firmware =
                        IF \/ host.SELECTED_FORMAT # ""
                           \/ host.SELECTED_MIN_RSSI # ""
                           \/ host.SELECTED_MANUFACTURERS # ""
                        THEN "y"
                        ELSE IF host.SKIP_UPLOAD THEN "n"
                        ELSE choice]
    /\ UNCHANGED Firmware

\* step 3 of main's loop: the settings, from the command line, the menus
\* or the defaults
CollectSettings ==
    /\ host.pc = "collect"
    /\ \E choice \in FormatChoices, rssi_choice \in RssiChoices, manufacturers_input \in ManufacturerInputs :
          IF host.customize_firmware = "y"
          THEN host' = [host EXCEPT
                          !.pc = "upload",
                          !.selected_format =
                             IF host.SELECTED_FORMAT # "" THEN host.SELECTED_FORMAT
                             ELSE select_format(choice),
                          !.selected_min_rssi =
                             IF host.SELECTED_MIN_RSSI # "" THEN host.SELECTED_MIN_RSSI
                             ELSE select_min_rssi(rssi_choice),
                          !.selected_manufacturers =
                             IF host.SELECTED_MANUFACTURERS # "" THEN host.SELECTED_MANUFACTURERS
                             ELSE select_manufacturers(manufacturers_input)]
          ELSE host' = [host EXCEPT
                          !.pc = "monitor",
                          !.selected_format =
                             IF host.SELECTED_FORMAT # "" THEN host.SELECTED_FORMAT
                             ELSE DEFAULT_FORMAT,
                          !.selected_min_rssi =
                             IF host.SELECTED_MIN_RSSI # "" THEN host.SELECTED_MIN_RSSI
                             ELSE DEFAULT_MIN_RSSI,
                          !.selected_manufacturers =
                             IF host.SELECTED_MANUFACTURERS # "" THEN host.SELECTED_MANUFACTURERS
                             ELSE DEFAULT_MANUFACTURERS]
    /\ UNCHANGED Firmware

\* the board restarted with a firmware built with the three flags
Flashed(flags) ==
    /\ OUTPUT_FORMAT' = OutputFormatOf(FlagValue(flags[1]))
    /\ MIN_RSSI' = FlagValue(flags[2])
    /\ MANUFACTURES_FLAG' = FlagValue(flags[3])
    /\ pc' = "setup"
    /\ clock' = 0
    /\ handled' = <<>>
    /\ printed' = <<>>
    /\ call' = [base |-> 0, admitted |-> FALSE, locals |-> InitialLocals]
    /\ serial' = <<>>
    /\ UNCHANGED air

\* step 4 of main's loop: handle_upload, perform_upload within it, and
\* main's case on the return code
HandleUpload ==
    /\ host.pc = "upload"
    /\ \E choice \in Answers, change_choice \in Answers, compiles \in BOOLEAN, uploads \in BOOLEAN :
          LET performed == ~host.SKIP_UPLOAD /\ choice = "y"
              done      == perform_upload(host.selected_format, host.selected_min_rssi, host.selected_manufacturers, compiles, uploads)
              result    == handle_upload(choice, change_choice, done.status)
          IN  /\ host' = [host EXCEPT
                            !.pc = CASE result \in {"0", "1"} -> "monitor"
                                     [] result = "2"          -> "ask"
                                     [] OTHER                 -> "exit",
                            !.PLATFORMIO_BUILD_FLAGS = IF performed THEN done.flags ELSE @,
                            !.commands = IF performed THEN @ \o done.commands ELSE @,
                            !.SELECTED_FORMAT = IF result = "2" THEN "" ELSE @,
                            !.SELECTED_MIN_RSSI = IF result = "2" THEN "" ELSE @,
                            !.SELECTED_MANUFACTURERS = IF result = "2" THEN "" ELSE @]
              /\ IF performed /\ done.status = "0"
                 THEN Flashed(done.flags)
                 ELSE UNCHANGED Firmware

\* step 5 of main: start_monitoring
StartMonitoring ==
    /\ host.pc = "monitor"
    /\ host' = [host EXCEPT !.pc = "monitoring",
                            !.log_file = host.selected_format,
                            !.commands = Append(@, "device monitor")]
    /\ UNCHANGED Firmware

NextHost ==
    \/ ProcessArguments
    \/ AskFirmwareCustomization
    \/ CollectSettings
    \/ HandleUpload
    \/ StartMonitoring
    \/ SetupPreamble
    \/ StartScan

SpecHost == InitHost /\ [][NextHost]_vars

-----------------------------------------------------------------------------
(* The script and the firmware it builds.                                  *)

\* the script uploaded a firmware and went on to monitoring
Uploaded ==
    /\ host.pc \in {"monitor", "monitoring"}
    /\ \E i \in 1 .. Len(host.commands) : host.commands[i] = "run -t upload"

\* the format each name of the script stands for
FormatNamed(name) ==
    CASE name = "log" -> "LOG" [] name = "csv" -> "CSV" [] name = "yaml" -> "YAML"

\* the serial line carries the line of this text
SerialHas(text) ==
    \E i \in 1 .. Len(serial) : serial[i].kind = "line" /\ serial[i].text[1] = text

(* C28: the script and the firmware agree on the encoding of the output    *)
(* format: validate_format accepts log, csv and yaml, format_to_flag gives *)
(* them 0, 1 and 2, and the firmware built with that OUTPUT_FORMAT_FLAG    *)
(* writes LOG, CSV and YAML. After an upload the firmware on the board has *)
(* the format the user selected, and the extension of the log file is the  *)
(* format of what the board writes.                                        *)
C28_FormatEncodingAgrees ==
    /\ \A format \in FormatArguments :
          validate_format(format) <=> format \in {"log", "csv", "yaml"}
    /\ format_to_flag("log") = "0" /\ format_to_flag("csv") = "1" /\ format_to_flag("yaml") = "2"
    /\ \A format \in {"log", "csv", "yaml"} :
          OutputFormatOf(FlagValue(format_to_flag(format))) = FormatNamed(format)
    /\ Uploaded =>
          /\ host.selected_format \in {"log", "csv", "yaml"}
          /\ host.PLATFORMIO_BUILD_FLAGS[1] = format_to_flag(host.selected_format)
          /\ OUTPUT_FORMAT = FormatNamed(host.selected_format)
    /\ (Uploaded /\ host.pc = "monitoring") =>
          /\ host.log_file = host.selected_format
          /\ OUTPUT_FORMAT = FormatNamed(host.log_file)
          /\ pc # "setup" =>
                /\ SerialHas(CsvHeader) <=> host.log_file = "csv"
                /\ SerialHas(YamlDocumentStart) <=> host.log_file = "yaml"

\* a firmware built for yaml was uploaded, the log file is a .yaml file and
\* the board has written the YAML document start
C28_Witness ==
    /\ Uploaded /\ host.pc = "monitoring"
    /\ host.PLATFORMIO_BUILD_FLAGS[1] = "2"
    /\ host.log_file = "yaml"
    /\ OUTPUT_FORMAT = "YAML"
    /\ SerialHas("---")

\* the same for log, whose flag is not the default of format_to_flag
C28_WitnessLog ==
    /\ Uploaded /\ host.pc = "monitoring"
    /\ host.PLATFORMIO_BUILD_FLAGS[1] = "0"
    /\ host.log_file = "log"
    /\ OUTPUT_FORMAT = "LOG"
    /\ pc = "scanning"

\* the names of the list the firmware was built for
NamesChosen ==
    {fields(host.selected_manufacturers)[i] : i \in 1 .. Len(fields(host.selected_manufacturers))}

(* C29: for every list validate_manufacturers accepts, the mask of the     *)
(* firmware built for it has bit 0, 1, 2, 3 set exactly if Apple, Google,  *)
(* Samsung, Xiaomi is named, and a list that names all, alone or with      *)
(* other names, gives the mask 0xF.                                        *)
C29_MaskEnablesNamed ==
    Uploaded =>
       /\ validate_manufacturers(host.selected_manufacturers)
       /\ "all" \in NamesChosen => MANUFACTURES_FLAG = 15
       /\ "all" \notin NamesChosen =>
             /\ MaskBit(0) <=> "Apple" \in NamesChosen
             /\ MaskBit(1) <=> "Google" \in NamesChosen
             /\ MaskBit(2) <=> "Samsung" \in NamesChosen
             /\ MaskBit(3) <=> "Xiaomi" \in NamesChosen

\* --manufacturer=Apple,all was accepted and the firmware uploaded has
\* Apple alone enabled
C29_AllAmongOthers ==
    /\ Uploaded
    /\ host.selected_manufacturers = "Apple,all"
    /\ host.PLATFORMIO_BUILD_FLAGS[3] = "0x1"
    /\ MANUFACTURES_FLAG = 1

\* --manufacturer=all,all was accepted and the firmware uploaded has no
\* manufacturer enabled
C29_AllTwice ==
    /\ Uploaded
    /\ host.selected_manufacturers = "all,all"
    /\ host.PLATFORMIO_BUILD_FLAGS[3] = "0x0"
    /\ MANUFACTURES_FLAG = 0

\* without all in the list the mask has the bits of the names and no other
C29_NamedBitsWithoutAll ==
    (Uploaded /\ "all" \notin NamesChosen) =>
       /\ MaskBit(0) <=> "Apple" \in NamesChosen
       /\ MaskBit(1) <=> "Google" \in NamesChosen
       /\ MaskBit(2) <=> "Samsung" \in NamesChosen
       /\ MaskBit(3) <=> "Xiaomi" \in NamesChosen

-----------------------------------------------------------------------------
(* The configuration loop of the script.                                   *)

\* the script has run a build
Built == \E i \in 1 .. Len(host.commands) : host.commands[i] = "run"

\* the firmware on the board is the one the exported flags describe
BoardHasBuild ==
    /\ Len(host.PLATFORMIO_BUILD_FLAGS) = 3
    /\ OUTPUT_FORMAT = OutputFormatOf(FlagValue(host.PLATFORMIO_BUILD_FLAGS[1]))
    /\ MIN_RSSI = FlagValue(host.PLATFORMIO_BUILD_FLAGS[2])
    /\ MANUFACTURES_FLAG = FlagValue(host.PLATFORMIO_BUILD_FLAGS[3])

\* the ways the loop ends that lead to monitoring
UploadSucceeded == host.commands = <<"run", "run -t upload">> /\ BoardHasBuild
Declined ==
    /\ ~host.SKIP_UPLOAD
    /\ host.commands = <<>>
    /\ \/ host.customize_firmware = "n"     \* the customization
       \/ host.customize_firmware = "y"     \* the upload and a change of settings
NoUpload == host.SKIP_UPLOAD /\ host.commands = <<>>

MonitoringOnlyAfterTheLoop ==
    /\ host.pc = "monitor" => UploadSucceeded \/ Declined \/ NoUpload
    /\ host.pc = "monitoring" =>
          \/ host.commands = <<"run", "run -t upload", "device monitor">> /\ BoardHasBuild
          \/ host.commands = <<"device monitor">>
    /\ host.pc = "exit" => \A i \in 1 .. Len(host.commands) : host.commands[i] # "device monitor"
    /\ host.SKIP_UPLOAD => ~Built /\ host.PLATFORMIO_BUILD_FLAGS = <<>> /\ MIN_RSSI = -50

LoopSteps ==
    \* an ended script stays ended
    /\ host.pc = "exit" => host' = host
    \* a build ends in the upload and monitoring, or ends the script and
    \* leaves the board as it was
    /\ (host.pc = "upload" /\ host'.commands # host.commands) =>
          \/ /\ host'.pc = "monitor"
             /\ host'.commands = host.commands \o <<"run", "run -t upload">>
             /\ MIN_RSSI' = FlagValue(host'.PLATFORMIO_BUILD_FLAGS[2])
             /\ pc' = "setup"
          \/ /\ host'.pc = "exit"
             /\ host'.commands \in {host.commands \o <<"run">>, host.commands \o <<"run", "run -t upload">>}
             /\ UNCHANGED Firmware
    \* monitoring starts from the end of the loop only
    /\ (host'.pc = "monitoring" /\ host.pc # "monitoring") =>
          /\ host.pc = "monitor"
          /\ UploadSucceeded \/ Declined \/ NoUpload
    \* going back to change the settings clears the command-line values
    /\ (host.pc = "upload" /\ host'.pc = "ask") =>
          /\ ~host.SKIP_UPLOAD
          /\ host'.commands = host.commands
          /\ host'.SELECTED_FORMAT = ""
          /\ host'.SELECTED_MIN_RSSI = ""
          /\ host'.SELECTED_MANUFACTURERS = ""
    \* and the next iteration asks: nothing is taken from the command line
    /\ (host.pc = "ask" /\ host.customize_firmware # "") =>
          /\ host.SELECTED_FORMAT = "" /\ host.SELECTED_MIN_RSSI = "" /\ host.SELECTED_MANUFACTURERS = ""
          /\ host'.customize_firmware \in Answers

(* C30: monitoring starts only after the configuration loop has ended in   *)
(* one of three ways: the upload succeeded, the user declined (the         *)
(* customization, or both the upload and a change of settings), or         *)
(* --no-upload was given. A failed build or upload ends the script without *)
(* monitoring; with --no-upload nothing is built or uploaded; going back   *)
(* to change the settings clears the format, RSSI and manufacturers of the *)
(* command line, so that the next iteration asks for them.                 *)
C30_MonitoringAfterConfiguration ==
    []MonitoringOnlyAfterTheLoop /\ [][LoopSteps]_vars

\* monitoring was started on a firmware just uploaded with settings chosen
\* at the menus
C30_Witness ==
    /\ host.pc = "monitoring"
    /\ host.commands = <<"run", "run -t upload", "device monitor">>
    /\ host.SELECTED_FORMAT = ""
    /\ host.selected_format = "yaml"
    /\ BoardHasBuild

\* the build was run and failed: the script ended without monitoring
C30_WitnessBuildFailed ==
    /\ host.pc = "exit"
    /\ host.commands = <<"run">>
    /\ MIN_RSSI = -50

\* the upload was run and failed: the script ended without monitoring
C30_WitnessUploadFailed ==
    /\ host.pc = "exit"
    /\ host.commands = <<"run", "run -t upload">>
    /\ MIN_RSSI = -50

\* --no-upload with a format on the command line: monitoring without a build
C30_WitnessNoUpload ==
    /\ host.pc = "monitoring"
    /\ host.SKIP_UPLOAD
    /\ host.SELECTED_FORMAT = "log"
    /\ host.commands = <<"device monitor">>

\* the user declined the upload and a change of settings
C30_WitnessDeclined ==
    /\ host.pc = "monitoring"
    /\ ~host.SKIP_UPLOAD
    /\ host.customize_firmware = "y"
    /\ host.commands = <<"device monitor">>

====
